---- MODULE Spec2Model ----
(***************************************************************************)
(* Multi-table analysis pipeline of the Data Quality bot: the retrying     *)
(* remote client (generateContentWithRetry), the per-table analyzer        *)
(* (analyzeSingleTable), the fan-out orchestrator with its merge and graph *)
(* construction (analyzeDataQuality) and the single-call entry point       *)
(* (performFullAnalysis).  The repository holds three versions of the      *)
(* service file; the variable "variant" says which one runs:               *)
(*   "fanout"  src/services/sqlParser.ts lines 86-540                      *)
(*   "legacy"  src/unnamed/part_000                                        *)
(*   "full"    src/services/geminiService.ts                               *)
(* Two more entry points of the fan-out file share its retrying client:    *)
(*   "rulemap" mapGlobalRulesToTables (src/services/sqlParser.ts 144-219)  *)
(*   "sql"     generateSqlForIssues   (src/services/sqlParser.ts 452-492)  *)
(***************************************************************************)
EXTENDS Integers, Sequences, FiniteSets, TLC

----------------------------------------------------------------------------
(* Bounds of the model *)

MaxTables == 2

TableNames == {"dbo.customers", "sales.orders"}

Variants == {"fanout", "legacy", "full"}

(* Values Math.random() * 1000 is sampled at (milliseconds, in [0, 1000)) *)
JitterSamples == {0, 999}

RetryJitterSamples == {0, 1, 500, 999}

(* The entry points: the three analysis entry points, the rule mapper and  *)
(* the SQL generator of the fan-out file                                   *)
EntryPoints == Variants \cup {"rulemap", "sql"}

(* The longest issue list given to generateSqlForIssues *)
MaxIssues == 2

(* globalRules of mapGlobalRulesToTables, as sequences of tokens: empty,   *)
(* only whitespace, a rule with whitespace around it, two rules            *)
GlobalRulesTexts ==
  {<<>>, <<" ", "\n", " ">>, <<" ", "total > 0", "\n">>,
   <<"total > 0", "\n", "id is not null">>}

(* The rules field of a table, as a sequence of lines ("" is <<"">>) *)
TableRules == {<<"">>, <<"id is unique", "age >= 0">>}

(* GlobalRuleMap values, as the sequence of the object's entries *)
RuleMaps ==
  {<<>>,
   <<[rule |-> "email is valid", tables |-> <<"dbo.customers">>],
     [rule |-> "no future dates", tables |-> <<"sales.orders", "dbo.customers">>]>>,
   <<[rule |-> "unused rule", tables |-> <<>>],
     [rule |-> "total > 0", tables |-> <<"sales.orders">>],
     [rule |-> "archived rows are read-only", tables |-> <<"dbo.customers_archive">>]>>}

----------------------------------------------------------------------------
(* Program constants *)

Retries == 3

InitialDelayFanOut == 2000

InitialDelayLegacy == 4000

InitialDelayFull == 4000

----------------------------------------------------------------------------
(* JavaScript values.  An array-typed JSON field is absent (undefined), a  *)
(* non-array value (a number), or an array.                                *)

Undef == [t |-> "undefined", v |-> <<>>]

Num == [t |-> "number", v |-> <<>>]

Arr(s) == [t |-> "array", v |-> s]

Truthy(x) == x.t # "undefined"

IsArray(x) == x.t = "array"

(* x || [] *)
OrEmpty(x) == IF Truthy(x) THEN x ELSE Arr(<<>>)

NoScore == [def |-> FALSE, n |-> 0]

Score(n) == [def |-> TRUE, n |-> n]

(* A property that is missing from an issue object *)
NoProp == "<undefined>"

(* !s for a string-typed property: missing or the empty string *)
Falsy(s) == s = NoProp \/ s = ""

(* Strings whose content the code inspects are sequences of tokens *)
includes(msg, tok) == \E k \in 1..Len(msg) : msg[k] = tok

ContainsSeq(hay, needle) ==
  \E k \in 0..(Len(hay) - Len(needle)) :
     \A j \in 1..Len(needle) : hay[k + j] = needle[j]

RECURSIVE Flatten(_, _)
Flatten(f, n) == IF n = 0 THEN <<>> ELSE Flatten(f, n - 1) \o f[n]

----------------------------------------------------------------------------
(* Visualization data *)

VizNull == [t |-> "null", nodes |-> <<>>, edges |-> <<>>, hotspots |-> <<>>]

VizUndef == [t |-> "undefined", nodes |-> <<>>, edges |-> <<>>, hotspots |-> <<>>]

VizObj(nodes, edges, hotspots) ==
  [t |-> "object", nodes |-> nodes, edges |-> edges, hotspots |-> hotspots]

----------------------------------------------------------------------------
(* JSON objects of a remote response *)

EmptyObj ==
  [issues_detected |-> Undef, rule_effectiveness |-> Undef,
   rule_conflicts |-> Undef, inferred_relationships |-> Undef,
   hotspot_score |-> NoScore, rule_analysis |-> Undef,
   schema_visualizations |-> VizUndef]

RawIssue(tn, tag) ==
  [table_name |-> tn, type |-> "Null Spike", description |-> <<tag>>,
   severity |-> "Medium"]

Rel(to, col) == [to_table |-> to, on_column |-> col]

UnknownTable == "ghost.table"

ObjOrders ==
  [EmptyObj EXCEPT
     !.issues_detected = Arr(<<RawIssue(UnknownTable, "o1"), RawIssue(NoProp, "o2")>>),
     !.rule_effectiveness = Arr(<<[rule |-> "total > 0"]>>),
     !.rule_conflicts = Arr(<<[conflict |-> "r1 vs r2"]>>),
     !.inferred_relationships =
        Arr(<<Rel("dbo.customers", "customer_id"), Rel(UnknownTable, "ghost_id")>>),
     !.hotspot_score = Score(5),
     !.rule_analysis = Arr(<<[rule |-> "total > 0"]>>),
     !.schema_visualizations =
        VizObj(<<[id |-> "sales.orders", label |-> "orders"]>>, <<>>, <<>>)]

ObjCustomers ==
  [EmptyObj EXCEPT
     !.issues_detected = Arr(<<RawIssue("", "c1")>>),
     !.rule_effectiveness = Arr(<<>>),
     !.inferred_relationships = Arr(<<>>),
     !.hotspot_score = Score(2)]

(* A response that leaves out every optional field *)
ObjUnscored == [EmptyObj EXCEPT !.issues_detected = Arr(<<RawIssue(NoProp, "u1")>>)]

ObjNegativeScore ==
  [EmptyObj EXCEPT
     !.issues_detected = Arr(<<RawIssue("sales.orders", "n1")>>),
     !.rule_conflicts = Arr(<<[conflict |-> "r3 vs r4"]>>),
     !.inferred_relationships =
        Arr(<<Rel("sales.orders", "order_id"), Rel("dbo.customers", "customer_id")>>),
     !.hotspot_score = Score(-1)]

ObjBadIssues == [EmptyObj EXCEPT !.issues_detected = Num, !.hotspot_score = Score(1)]

ObjBadEffectiveness ==
  [EmptyObj EXCEPT !.issues_detected = Arr(<<>>), !.rule_effectiveness = Num]

ObjBadRelationships ==
  [EmptyObj EXCEPT !.issues_detected = Arr(<<>>), !.inferred_relationships = Num]

----------------------------------------------------------------------------
(* Response texts.  "pad" is surrounding whitespace, "first"/"last" the    *)
(* first and last non-blank characters, "json" what JSON.parse makes of    *)
(* the text: a SyntaxError ("invalid"), null, or an object.                *)

Text(pad, first, last, kind, obj) ==
  [pad |-> pad, first |-> first, last |-> last, json |-> [k |-> kind, obj |-> obj]]

NoText == Text(FALSE, "", "", "invalid", EmptyObj)

TextPlain == Text(FALSE, "S", ".", "invalid", EmptyObj)

TextBraceBad == Text(FALSE, "{", "}", "invalid", EmptyObj)

TextNull == Text(TRUE, "n", "l", "null", EmptyObj)

TextOrders == Text(TRUE, "{", "}", "object", ObjOrders)

TextCustomers == Text(FALSE, "{", "}", "object", ObjCustomers)

TextNegativeScore == Text(FALSE, "{", "}", "object", ObjNegativeScore)

TextUnscored == Text(FALSE, "{", "}", "object", ObjUnscored)

TextBadIssues == Text(FALSE, "{", "}", "object", ObjBadIssues)

TextBadEffectiveness == Text(FALSE, "{", "}", "object", ObjBadEffectiveness)

TextBadRelationships == Text(TRUE, "{", "}", "object", ObjBadRelationships)

(* Prose that ends in a JSON object: "Here is the result: {...}" *)
TextPrefixed == Text(FALSE, "H", "}", "invalid", EmptyObj)

(* An element of the array mapGlobalRulesToTables asks for.  "rule" is ""  *)
(* when missing or empty; "tables" is a JavaScript value.                  *)
MapItem(rule, tbls) == [t |-> "object", rule |-> rule, tables |-> tbls]

NullItem == [t |-> "null", rule |-> "", tables |-> Undef]

(* A response whose JSON is an array *)
TextArray(pad, items) ==
  [pad |-> pad, first |-> "[", last |-> "]",
   json |-> [k |-> "array", obj |-> EmptyObj], items |-> items]

TextMapGood ==
  TextArray(TRUE,
    <<MapItem("email is valid", Arr(<<"dbo.customers">>)),
      MapItem("total > 0", Arr(<<"sales.orders", "dbo.customers">>))>>)

(* Items without a rule or without tables, an empty table list, and a rule *)
(* that is listed twice                                                    *)
TextMapOdd ==
  TextArray(FALSE,
    <<MapItem("", Arr(<<"dbo.customers">>)),
      MapItem("total > 0", Arr(<<"sales.orders">>)),
      MapItem("email is valid", Undef),
      MapItem("id is unique", Arr(<<>>)),
      MapItem("total > 0", Arr(<<"dbo.customers">>))>>)

TextMapEmpty == TextArray(FALSE, <<>>)

TextMapNullItem ==
  TextArray(FALSE, <<MapItem("total > 0", Arr(<<"sales.orders">>)), NullItem>>)

(* A rule whose text is the name of the prototype accessor of objects *)
TextMapProto ==
  TextArray(FALSE,
    <<MapItem("__proto__", Arr(<<"dbo.customers">>)),
      MapItem("total > 0", Arr(<<"sales.orders">>))>>)

MapTexts == {TextMapGood, TextMapOdd, TextMapEmpty, TextMapNullItem, TextMapProto}

ResponseTexts ==
  {TextPlain, TextBraceBad, TextNull, TextOrders, TextCustomers, TextNegativeScore,
   TextUnscored, TextBadIssues, TextBadEffectiveness, TextBadRelationships,
   TextPrefixed} \cup MapTexts

(* String.prototype.trim *)
trim(text) == [text EXCEPT !.pad = FALSE]

(* The test of the first character is left out *)
startsWithAlways(text, c) == TRUE

startsWith(text, c) == ~text.pad /\ text.first = c

endsWith(text, c) == ~text.pad /\ text.last = c

----------------------------------------------------------------------------
(* The remote service as a stub: call number n of a task fails with a      *)
(* rate-limit error while n <= fails, and afterwards gives "final": a      *)
(* response text, a non-retryable error, a rate-limit error for ever, or a *)
(* call that never settles.                                                *)

RateLimitKinds == {"429", "RESOURCE_EXHAUSTED"}

RateLimitMsg(kind, n) == <<"got", kind, "on call", ToString(n)>>

FatalMsg(n) == <<"403", "PERMISSION_DENIED", "on call", ToString(n)>>

FinalText(text) == [k |-> "text", text |-> text]

FinalFatal == [k |-> "error", text |-> NoText]

FinalRateLimit == [k |-> "ratelimit", text |-> NoText]

(* The remote call neither returns nor throws *)
FinalHang == [k |-> "hang", text |-> NoText]

Finals == {FinalText(t) : t \in ResponseTexts} \cup {FinalFatal, FinalHang}

(* Every stub: up to two rate-limit failures of either kind, then any end *)
AllStubs ==
  {[fails |-> 0, kind |-> "429", final |-> f] : f \in Finals}
  \cup [fails : {1, 2}, kind : RateLimitKinds, final : Finals]
  \cup {[fails |-> 0, kind |-> k, final |-> FinalRateLimit] : k \in RateLimitKinds}

(* The responses that reach the merge in different ways, and one that     *)
(* does not pass the per-table pipeline                                    *)
MergeTexts ==
  {TextPlain, TextOrders, TextCustomers, TextNegativeScore, TextUnscored,
   TextBadEffectiveness, TextBadRelationships}

(* The stubs of the multi-table runs: these responses or a fatal error on  *)
(* the first call, success after one rate limit, rate limits for ever      *)
Stubs ==
  {[fails |-> 0, kind |-> "429", final |-> f] :
      f \in {FinalText(t) : t \in MergeTexts} \cup {FinalFatal}}
  \cup {[fails |-> 1, kind |-> "429", final |-> FinalText(TextCustomers)],
        [fails |-> 0, kind |-> "429", final |-> FinalRateLimit],
        [fails |-> 0, kind |-> "429", final |-> FinalHang]}

(* The stubs of the multi-table runs of mapGlobalRulesToTables *)
MapStubs ==
  {[fails |-> 0, kind |-> "429", final |-> f] :
      f \in {FinalText(t) : t \in MapTexts \cup {TextPlain, TextNull, TextOrders}}
            \cup {FinalFatal, FinalRateLimit, FinalHang}}
  \cup {[fails |-> 1, kind |-> "RESOURCE_EXHAUSTED", final |-> FinalText(TextMapGood)]}

TimeoutMsg(n) == <<"504", "DEADLINE_EXCEEDED", "on call", ToString(n)>>

(* A client-side timeout: a call that does not settle is ended by an error *)
generateContentTimesOut(s, n) ==
  IF n <= s.fails \/ s.final.k = "ratelimit"
    THEN [k |-> "error", msg |-> RateLimitMsg(s.kind, n), text |-> NoText]
    ELSE IF s.final.k = "error"
      THEN [k |-> "error", msg |-> FatalMsg(n), text |-> NoText]
      ELSE IF s.final.k = "hang"
        THEN [k |-> "error", msg |-> TimeoutMsg(n), text |-> NoText]
        ELSE [k |-> "text", msg |-> <<>>, text |-> s.final.text]

(* What ai.models.generateContent does on the n-th call of a task *)
generateContent(s, n) ==
  IF n <= s.fails \/ s.final.k = "ratelimit"
    THEN [k |-> "error", msg |-> RateLimitMsg(s.kind, n), text |-> NoText]
    ELSE IF s.final.k = "error"
      THEN [k |-> "error", msg |-> FatalMsg(n), text |-> NoText]
      ELSE IF s.final.k = "hang"
        THEN [k |-> "hang", msg |-> <<>>, text |-> NoText]
        ELSE [k |-> "text", msg |-> <<>>, text |-> s.final.text]

HitsRateLimit(s) == s.fails > 0 \/ s.final.k = "ratelimit"

----------------------------------------------------------------------------
(* generateContentWithRetry: the pieces of the loop *)

(* Every error is taken for a rate-limit error *)
isRateLimitErrorAlways(msg) == TRUE

(* errorMessage.includes('429') || errorMessage.includes('RESOURCE_EXHAUSTED') *)
isRateLimitError(msg) == includes(msg, "429") \/ includes(msg, "RESOURCE_EXHAUSTED")

(* The fan-out file keeps the base delay of the older files *)
initialDelayUnreduced(v, random) ==
  IF v \in {"fanout", "rulemap", "sql"} THEN InitialDelayLegacy + random
  ELSE IF v = "legacy" THEN InitialDelayLegacy
  ELSE InitialDelayFull

(* let delayMs = initialDelayMs (+ Math.random() * 1000 in the fan-out file) *)
initialDelay(v, random) ==
  IF v \in {"fanout", "rulemap", "sql"} THEN InitialDelayFanOut + random
  ELSE IF v = "legacy" THEN InitialDelayLegacy
  ELSE InitialDelayFull

(* The loop bound off by one: i <= retries *)
loopContinuesOffByOne(i) == i <= Retries

(* for (let i = 0; i < retries; i++): does the loop run another attempt *)
loopContinues(i) == i < Retries

----------------------------------------------------------------------------
(* analyzeSingleTable *)

Returned(kind, obj) == [ok |-> TRUE, err |-> <<>>, kind |-> kind, res |-> obj]

Threw(msg) == [ok |-> FALSE, err |-> msg, kind |-> "none", res |-> EmptyObj]

InvalidJsonMsg == <<"Invalid JSON response received from API.">>

(* The message of the SyntaxError of JSON.parse: on "{not json}", the text *)
(* that starts with a brace, and on prose                                  *)
SyntaxErrorMsg(text) ==
  IF text.first = "{"
    THEN <<"Expected property name or '}' in JSON at position 1">>
    ELSE <<"Unexpected token", "is not valid JSON">>

(* The message of the TypeError of result.<prop>.forEach on a non-array *)
ForEachMsg(prop) == <<"result." \o prop \o ".forEach is not a function">>

(* The message of the TypeError of push(...x) on a value not iterable *)
SpreadMsg == <<"Spread syntax requires ...iterable[Symbol.iterator] to be a function">>

(* The message of the TypeError of null.<prop> *)
NullTypeErrorMsg(prop) == <<"Cannot read properties of null (reading '" \o prop \o "')">>

(* JSON.parse *)
JSONparse(text) ==
  IF text.json.k = "invalid" THEN Threw(SyntaxErrorMsg(text))
  ELSE Returned(text.json.k, text.json.obj)

(* result.issues_detected.forEach(issue => { issue.table_name = table.name; }) *)
forceTableName(issues, name) ==
  Arr([k \in 1..Len(issues.v) |-> [issues.v[k] EXCEPT !.table_name = name]])

(* forEach(issue => { if (!issue.table_name) issue.table_name = table.name; }) *)
fillTableName(issues, name) ==
  Arr([k \in 1..Len(issues.v) |->
        IF Falsy(issues.v[k].table_name)
          THEN [issues.v[k] EXCEPT !.table_name = name]
          ELSE issues.v[k]])

(* The try block of the fan-out analyzeSingleTable, from the response on *)
tryFanOut(name, text) ==
  LET jsonText == trim(text)
      parsed == JSONparse(jsonText)
      result == parsed.res
  IN IF ~startsWith(jsonText, "{") \/ ~endsWith(jsonText, "}")
       THEN Threw(InvalidJsonMsg)
     ELSE IF ~parsed.ok THEN parsed
     ELSE IF Truthy(result.issues_detected)
       THEN IF ~IsArray(result.issues_detected)
              THEN Threw(ForEachMsg("issues_detected"))
            ELSE Returned("object",
                   [result EXCEPT !.issues_detected = forceTableName(@, name)])
     ELSE Returned("object", result)

(* The try block of the legacy analyzeSingleTable, from the response on *)
tryLegacy(name, text) ==
  LET jsonText == trim(text)
      parsed == JSONparse(jsonText)
      result == parsed.res
  IN IF ~parsed.ok THEN parsed
     ELSE IF parsed.kind = "null" THEN Threw(NullTypeErrorMsg("issues_detected"))
     ELSE IF Truthy(result.issues_detected)
       THEN IF ~IsArray(result.issues_detected)
              THEN Threw(ForEachMsg("issues_detected"))
            ELSE Returned("object",
                   [result EXCEPT !.issues_detected = fillTableName(@, name)])
     ELSE Returned("object", result)

(* The try block of performFullAnalysis, from the response on *)
tryFull(text) == JSONparse(trim(text))

DescriptionPrefix == <<"Failed to analyze this table. Error:">>

(* The description does not carry the error's message *)
errorResultNoMessage(name, msg) ==
  [EmptyObj EXCEPT
     !.issues_detected =
        Arr(<<[table_name |-> name, type |-> "Analysis Error",
               description |-> DescriptionPrefix, severity |-> "High"]>>),
     !.rule_effectiveness = Arr(<<>>),
     !.rule_conflicts = Arr(<<>>)]

(* The catch block of the fan-out analyzeSingleTable *)
errorResult(name, msg) ==
  [EmptyObj EXCEPT
     !.issues_detected =
        Arr(<<[table_name |-> name, type |-> "Analysis Error",
               description |-> DescriptionPrefix \o msg, severity |-> "High"]>>),
     !.rule_effectiveness = Arr(<<>>),
     !.rule_conflicts = Arr(<<>>)]

(* The catch block of the legacy analyzeSingleTable: { issues_detected: [] } *)
legacyEmptyResult == [EmptyObj EXCEPT !.issues_detected = Arr(<<>>)]

FullFailureMsg ==
  <<"The AI model failed to return a valid analysis.",
    "Please check the inputs and try again.">>

(* What the task of variant v settles with once its try block ended in r;  *)
(* for the rule mapper, what its try block has reached after JSON.parse    *)
settle(v, name, r) ==
  IF v = "fanout"
    THEN [name |-> name, ok |-> TRUE, err |-> <<>>, kind |-> "object",
          res |-> IF r.ok THEN r.res ELSE errorResult(name, r.err)]
  ELSE IF v = "legacy"
    THEN [name |-> name, ok |-> TRUE, err |-> <<>>, kind |-> "object",
          res |-> IF r.ok THEN r.res ELSE legacyEmptyResult]
  ELSE IF v \in {"rulemap", "sql"}
    THEN [name |-> name, ok |-> r.ok, err |-> r.err, kind |-> r.kind, res |-> r.res]
  ELSE IF r.ok
    THEN [name |-> name, ok |-> TRUE, err |-> <<>>, kind |-> r.kind, res |-> r.res]
    ELSE [name |-> name, ok |-> FALSE, err |-> FullFailureMsg, kind |-> "none",
          res |-> EmptyObj]

tryBlock(v, name, text) ==
  IF v = "fanout" THEN tryFanOut(name, text)
  ELSE IF v = "legacy" THEN tryLegacy(name, text)
  ELSE tryFull(text)

NoResult == [name |-> "", ok |-> FALSE, err |-> <<>>, kind |-> "none", res |-> EmptyObj]

(* What the caller of the client settles with when its await resumes: the  *)
(* rest of its try block on the response, its catch block on the error     *)
afterAwait(v, name, cl, text) ==
  settle(v, name,
         IF cl.state = "fulfilled" THEN tryBlock(v, name, text) ELSE Threw(cl.reason))

----------------------------------------------------------------------------
(* mapGlobalRulesToTables *)

IsWhitespace(tok) == tok \in {" ", "\n", "\t"}

RECURSIVE trimStart(_)
trimStart(str) ==
  IF str # <<>> /\ IsWhitespace(Head(str)) THEN trimStart(Tail(str)) ELSE str

RECURSIVE trimEnd(_)
trimEnd(str) ==
  IF str # <<>> /\ IsWhitespace(str[Len(str)])
    THEN trimEnd(SubSeq(str, 1, Len(str) - 1))
    ELSE str

(* String.prototype.trim on a string of tokens *)
trimTokens(str) == trimEnd(trimStart(str))

(* Only the empty string and the empty table list end the call early *)
mapShortCircuitsUntrimmed(tbls, rules) == rules = <<>> \/ Len(tbls) = 0

(* !globalRules || globalRules.trim() === '' || tables.length === 0 *)
mapShortCircuits(tbls, rules) ==
  rules = <<>> \/ trimTokens(rules) = <<>> \/ Len(tbls) = 0

(* The accessor Object.prototype.__proto__, which an assignment to the key *)
(* "__proto__" of a plain object runs                                      *)
ProtoKey == "__proto__"

(* ruleMap[rule] = tbls: an existing key keeps its place, a new one is     *)
(* last; the key "__proto__" is not created: the assignment of an array    *)
(* makes the array the prototype of ruleMap, whose own keys stay the same  *)
ruleMapPut(map, rule, tbls) ==
  IF rule = ProtoKey THEN map
  ELSE IF \E k \in 1..Len(map) : map[k].rule = rule
    THEN [k \in 1..Len(map) |->
            IF map[k].rule = rule THEN [rule |-> rule, tables |-> tbls] ELSE map[k]]
    ELSE Append(map, [rule |-> rule, tables |-> tbls])

(* for (const item of resultArray) if (item.rule && item.tables) ...: the  *)
(* map after the first n items                                             *)
RECURSIVE toRuleMap(_, _)
toRuleMap(items, n) ==
  IF n = 0 THEN <<>>
  ELSE LET before == toRuleMap(items, n - 1)
           item == items[n]
       IN IF item.rule # "" /\ Truthy(item.tables)
            THEN ruleMapPut(before, item.rule, item.tables.v)
            ELSE before

MapReturned(map) == [ok |-> TRUE, err |-> <<>>, map |-> map]

MapThrew(msg) == [ok |-> FALSE, err |-> msg, map |-> <<>>]

NotIterableMsg == <<"resultArray is not iterable">>

(* The try block after JSON.parse gave r for the response text *)
tryRuleMap(r, text) ==
  IF ~r.ok THEN MapThrew(r.err)
  ELSE IF r.kind # "array" THEN MapThrew(NotIterableMsg)
  ELSE IF \E k \in 1..Len(text.items) : text.items[k].t = "null"
    THEN MapThrew(NullTypeErrorMsg("rule"))
  ELSE MapReturned(toRuleMap(text.items, Len(text.items)))

(* The catch block rethrows instead of returning {} *)
mapCatchRethrows(r) == r

(* catch (e) { ...; return {}; } *)
mapCatch(r) == IF r.ok THEN r ELSE MapReturned(<<>>)

NoMap == [ok |-> FALSE, err |-> <<>>, map |-> <<>>]

----------------------------------------------------------------------------
(* generateSqlForIssues.  An issue is given by the two properties the      *)
(* function inspects: its type, and its description, a string (a sequence  *)
(* of tokens) or undefined.                                                *)

Str(s) == [t |-> "string", v |-> s]

SqlIssue(type, desc) == [type |-> type, description |-> desc]

(* The issues of the lists given to generateSqlForIssues *)
SqlIssues ==
  {SqlIssue("Null Spike", Str(<<"nulls in", "email">>)),
   SqlIssue("Schema Drift", Str(<<"column", "added">>)),
   SqlIssue("Anomaly", Str(<<"Data Type Mismatch", "in", "age">>)),
   SqlIssue("Null Spike", Undef),
   SqlIssue("Schema Drift", Undef)}

SqlIssueLists == UNION {[1..n -> SqlIssues] : n \in 0..MaxIssues}

(* String.prototype.toLowerCase, token by token *)
toLowerCase(str) ==
  [k \in 1..Len(str) |->
     IF str[k] = "Data Type Mismatch" THEN "data type mismatch" ELSE str[k]]

(* issue.description.toLowerCase() is evaluated, on undefined: TypeError *)
descriptionThrows(issue) ==
  issue.type # "Schema Drift" /\ issue.description.t = "undefined"

(* issue.type !== 'Schema Drift' &&                                        *)
(*   !issue.description.toLowerCase().includes('data type mismatch')       *)
isActionable(issue) ==
  /\ issue.type # "Schema Drift"
  /\ ~includes(toLowerCase(issue.description.v), "data type mismatch")

UndefinedTypeErrorMsg ==
  <<"Cannot read properties of undefined (reading 'toLowerCase')">>

(* The filter callback throws on the first issue it cannot read *)
filterThrows(list) == \E k \in 1..Len(list) : descriptionThrows(list[k])

actionableIssues(list) == SelectSeq(list, isActionable)

(* The values generateSqlForIssues resolves with: the two fixed comments   *)
(* and response.text                                                       *)
NoSql == [k |-> "none", text |-> NoText]

SqlNoActionable == [k |-> "-- No actionable issues found", text |-> NoText]

SqlErrorComment ==
  [k |-> "-- An error occurred while generating SQL queries", text |-> NoText]

SqlResponse(text) == [k |-> "response", text |-> text]

(* The stubs of the runs of generateSqlForIssues *)
SqlStubs ==
  {[fails |-> 0, kind |-> "429", final |-> f] :
      f \in {FinalText(TextPlain), FinalText(TextOrders), FinalFatal,
             FinalRateLimit, FinalHang}}
  \cup {[fails |-> 2, kind |-> "RESOURCE_EXHAUSTED", final |-> FinalText(TextPlain)]}

----------------------------------------------------------------------------
(* analyzeDataQuality: the rules passed to each table's analysis.  A text  *)
(* is the sequence of its lines; the empty string is <<"">>.               *)

(* Array.prototype.join('\n') *)
joinLines(parts) ==
  IF Len(parts) = 0 THEN <<"">>
  ELSE Flatten(parts, Len(parts))

(* The filter is left out: every global rule goes to every table *)
ruleAppliesAlways(entry, name) == TRUE

(* .filter(([, tables]) => tables.includes(table.name)) *)
ruleApplies(entry, name) == \E k \in 1..Len(entry.tables) : entry.tables[k] = name

(* Object.entries(ruleMap).filter(...).map(([rule]) => rule).join('\n') *)
relevantGlobalRules(map, name) ==
  LET kept == SelectSeq(map, LAMBDA entry : ruleApplies(entry, name))
  IN joinLines([k \in 1..Len(kept) |-> <<kept[k].rule>>])

(* .filter(Boolean) on strings: the empty string is dropped *)
filterBoolean(parts) == SelectSeq(parts, LAMBDA part : part # <<"">>)

(* [table.rules, relevantGlobalRules].filter(Boolean).join('\n') *)
allApplicableRules(table, map) ==
  joinLines(filterBoolean(<<table.rules, relevantGlobalRules(map, table.name)>>))

----------------------------------------------------------------------------
(* analyzeDataQuality: the merge and the graph construction *)

Aggregate(kind, issues, effectiveness, conflicts, viz) ==
  [kind |-> kind, issues |-> issues, ruleEffectiveness |-> effectiveness,
   ruleConflicts |-> conflicts, viz |-> viz]

NoAggregate == Aggregate("none", Undef, Undef, Undef, VizUndef)

(* The value returned when inputs.tables is empty *)
emptyAggregate(v) ==
  IF v = "fanout" THEN Aggregate("object", Arr(<<>>), Arr(<<>>), Arr(<<>>), VizNull)
  ELSE IF v = "legacy" THEN Aggregate("object", Arr(<<>>), Undef, Undef, VizUndef)
  ELSE Aggregate("object", Arr(<<>>), Arr(<<>>), Arr(<<>>), VizObj(<<>>, <<>>, <<>>))

(* const allTableNames = inputs.tables.map(t => t.name) *)
allTableNames(tbls) == [k \in 1..Len(tbls) |-> tbls[k].name]

(* allTableNames.includes(name) *)
namesInclude(names, name) == \E k \in 1..Len(names) : names[k] = name

(* parts.join(sep), as the sequence of the parts with sep between them *)
joinWith(parts, sep) ==
  [k \in 1..(IF Len(parts) = 0 THEN 0 ELSE 2 * Len(parts) - 1) |->
     IF k % 2 = 1 THEN parts[(k + 1) \div 2] ELSE sep]

(* The own name is not left out of the target list *)
otherTableNamesAll(names, name) == names

(* allTableNames.filter(t => t !== table.name) *)
otherTableNames(names, name) == SelectSeq(names, LAMBDA t : t # name)

(* buildSingleTablePrompt: the list after "The only valid target tables    *)
(* are:", between the brackets                                             *)
validTargets(names, name) == joinWith(otherTableNames(names, name), ", ")

(* The first entry of a key is kept instead of the last one *)
resultsByTableFirst(res, name) ==
  LET first == CHOOSE i \in DOMAIN res :
                  /\ res[i].name = name
                  /\ \A j \in DOMAIN res : j < i => res[j].name # name
  IN res[first].res

(* new Map(entries).get(name): the value of the last entry with that key *)
resultsByTable(res, name) ==
  LET last == CHOOSE i \in DOMAIN res :
                 /\ res[i].name = name
                 /\ \A j \in DOMAIN res : j > i => res[j].name # name
  IN res[last].res

(* The result the merge loop works on at position i of inputs.tables *)
mergedResult(tbls, res, i) == resultsByTable(res, tbls[i].name)

(* allX.push(...(x || [])) throws when x is neither missing nor iterable;  *)
(* x.forEach throws when x is present and not an array                     *)
mergeStepThrows(r) ==
  \/ ~IsArray(OrEmpty(r.issues_detected))
  \/ ~IsArray(OrEmpty(r.rule_effectiveness))
  \/ ~IsArray(OrEmpty(r.rule_conflicts))
  \/ (Truthy(r.inferred_relationships) /\ ~IsArray(r.inferred_relationships))

mergeThrows(tbls, res) ==
  \E i \in 1..Len(tbls) : mergeStepThrows(mergedResult(tbls, res, i))

(* The error the loop ends with: that of the first statement that throws   *)
(* in the pass of the first table, in input order, whose pass throws       *)
mergeError(tbls, res) ==
  LET first == CHOOSE i \in 1..Len(tbls) :
                 /\ mergeStepThrows(mergedResult(tbls, res, i))
                 /\ \A j \in 1..(i - 1) :
                       ~mergeStepThrows(mergedResult(tbls, res, j))
      r == mergedResult(tbls, res, first)
  IN IF \/ ~IsArray(OrEmpty(r.issues_detected))
        \/ ~IsArray(OrEmpty(r.rule_effectiveness))
        \/ ~IsArray(OrEmpty(r.rule_conflicts))
       THEN SpreadMsg
       ELSE ForEachMsg("inferred_relationships")

(* The membership test left out: every reported relationship is an edge *)
edgeIsKeptAlways(names, rel) == TRUE

(* if (allTableNames.includes(rel.to_table)) vizData.edges.push(...) *)
edgeIsKept(names, rel) == namesInclude(names, rel.to_table)

(* Relationships of a table to itself are left out *)
edgesOfOthers(names, name, r) ==
  IF Truthy(r.inferred_relationships)
    THEN LET kept == SelectSeq(r.inferred_relationships.v,
                               LAMBDA rel : edgeIsKept(names, rel) /\ rel.to_table # name)
         IN [k \in 1..Len(kept) |->
               [from |-> name, to |-> kept[k].to_table, label |-> kept[k].on_column]]
    ELSE <<>>

(* if (result.inferred_relationships) result.inferred_relationships.forEach *)
edgesOf(names, name, r) ==
  IF Truthy(r.inferred_relationships)
    THEN LET kept == SelectSeq(r.inferred_relationships.v,
                               LAMBDA rel : edgeIsKept(names, rel))
         IN [k \in 1..Len(kept) |->
               [from |-> name, to |-> kept[k].to_table, label |-> kept[k].on_column]]
    ELSE <<>>

(* The undefined test left out: a missing score is pushed as 0 *)
hotspotsOfAlways(name, r) == <<[tableName |-> name, score |-> r.hotspot_score.n]>>

(* if (result.hotspot_score !== undefined) vizData.hotspots.push(...) *)
hotspotsOf(name, r) ==
  IF r.hotspot_score.def
    THEN <<[tableName |-> name, score |-> r.hotspot_score.n]>>
    ELSE <<>>

nodeOf(name) == [id |-> name, label |-> name]

(* The test looks at the edges: a graph without edges is returned as null *)
vizOrNullByEdges(nodes, edges, hotspots) ==
  IF Len(edges) > 0 THEN VizObj(nodes, edges, hotspots) ELSE VizNull

(* schemaVisualizationData: vizData.nodes.length > 0 ? vizData : null *)
vizOrNull(nodes, edges, hotspots) ==
  IF Len(nodes) > 0 THEN VizObj(nodes, edges, hotspots) ELSE VizNull

(* The loop "for (const table of inputs.tables)" and the return value *)
mergeFanOut(tbls, res) ==
  LET n == Len(tbls)
      names == allTableNames(tbls)
      R(i) == mergedResult(tbls, res, i)
  IN Aggregate("object",
       Arr(Flatten([i \in 1..n |-> OrEmpty(R(i).issues_detected).v], n)),
       Arr(Flatten([i \in 1..n |-> OrEmpty(R(i).rule_effectiveness).v], n)),
       Arr(Flatten([i \in 1..n |-> OrEmpty(R(i).rule_conflicts).v], n)),
       vizOrNull([i \in 1..n |-> nodeOf(tbls[i].name)],
                 Flatten([i \in 1..n |-> edgesOf(names, tbls[i].name, R(i))], n),
                 Flatten([i \in 1..n |-> hotspotsOf(tbls[i].name, R(i))], n)))

(* results.flatMap(result => result.x || []): arrays are spliced in, any   *)
(* other value becomes one element                                         *)
flatMapPart(x) == IF IsArray(OrEmpty(x)) THEN OrEmpty(x).v ELSE <<x>>

mergeLegacy(res) ==
  LET n == Len(res)
  IN Aggregate("object",
       Arr(Flatten([i \in 1..n |-> flatMapPart(res[i].res.issues_detected)], n)),
       Arr(Flatten([i \in 1..n |-> flatMapPart(res[i].res.rule_effectiveness)], n)),
       Arr(Flatten([i \in 1..n |-> flatMapPart(res[i].res.rule_conflicts)], n)),
       VizUndef)

(* return JSON.parse(jsonText) as FullAnalysisResponse *)
fullResponse(r) ==
  Aggregate(r.kind, r.res.issues_detected, r.res.rule_analysis,
            r.res.rule_conflicts, r.res.schema_visualizations)

----------------------------------------------------------------------------
(* State *)

VARIABLES
  variant,     \* which version of the service file runs
  tables,      \* inputs.tables
  stub,        \* per task: how the remote service answers its calls
  random,      \* per task: the value of Math.random() * 1000
  phase,       \* "idle", "running", "done" (resolved), "failed" (rejected)
  pc,          \* per task: "idle", "inflight", "backoff", "returned" (the
               \* client has settled, its caller has not resumed), "settled"
  attempt,     \* per task: the loop variable i of generateContentWithRetry
  delayMs,     \* per task: delayMs
  lastError,   \* per task: lastError (<<>> is null)
  calls,       \* per task: number of remote calls issued so far
  waitLog,     \* per task: the delays of the setTimeout waits so far
  client,      \* per task: the promise of generateContentWithRetry
  result,      \* per task: what the task's promise settled with
  aggregate,   \* the value the entry point resolved with
  thrown,      \* the message of the error the entry point rejected with
  globalRules, \* the globalRules argument of mapGlobalRulesToTables
  ruleMap,     \* the ruleMap argument of the fan-out analyzeDataQuality
  rulesText,   \* per task: the applicableRules argument of analyzeSingleTable
  targetList,  \* per task: the target list written into the table's prompt
  issues,      \* the issues argument of generateSqlForIssues
  sqlText,     \* the string generateSqlForIssues resolved with
  mapped       \* the map mapGlobalRulesToTables resolved with

vars == <<variant, tables, stub, random, phase, pc, attempt, delayMs, lastError,
          calls, waitLog, client, result, aggregate, thrown, globalRules, ruleMap,
          rulesText, mapped, targetList, issues, sqlText>>

inputVars == <<variant, tables, stub, random, globalRules, ruleMap, issues>>

(* One task per table, or the single remote call of performFullAnalysis,   *)
(* of mapGlobalRulesToTables and of generateSqlForIssues                   *)
NumTasks(v, tbls) ==
  IF v = "sql" THEN 1
  ELSE IF v \in {"full", "rulemap"} THEN (IF Len(tbls) = 0 THEN 0 ELSE 1)
  ELSE Len(tbls)

Tasks == 1..NumTasks(variant, tables)

(* Tables without rules of their own *)
TableLists ==
  UNION {[1..n -> [name : TableNames, rules : {<<"">>}]] : n \in 0..MaxTables}

(* Tables with and without rules of their own *)
RuledTableLists ==
  UNION {[1..n -> [name : TableNames, rules : TableRules]] : n \in 0..MaxTables}

Pending == [state |-> "pending", reason |-> <<>>]

Fulfilled == [state |-> "fulfilled", reason |-> <<>>]

Rejected(msg) == [state |-> "rejected", reason |-> msg]

(* The state before the entry point is called, for given inputs *)
Idle ==
  /\ phase = "idle"
  /\ pc = [i \in Tasks |-> "idle"]
  /\ attempt = [i \in Tasks |-> 0]
  /\ delayMs = [i \in Tasks |-> 0]
  /\ lastError = [i \in Tasks |-> <<>>]
  /\ calls = [i \in Tasks |-> 0]
  /\ waitLog = [i \in Tasks |-> <<>>]
  /\ client = [i \in Tasks |-> Pending]
  /\ result = [i \in Tasks |-> NoResult]
  /\ aggregate = NoAggregate
  /\ thrown = <<>>
  /\ rulesText = [i \in Tasks |-> <<"">>]
  /\ targetList = [i \in Tasks |-> <<>>]
  /\ sqlText = NoSql
  /\ mapped = NoMap

(* Math.random is only called by the client of the fan-out file, which the *)
(* rule mapper shares, and its value only shows in a backoff wait          *)
RandomMatters(v, s) == v \in {"fanout", "rulemap", "sql"} /\ HitsRateLimit(s)

(* globalRules is read by the rule mapper only *)
GlobalRulesOf(v) == IF v = "rulemap" THEN GlobalRulesTexts ELSE {<<>>}

(* issues is the argument of generateSqlForIssues only *)
IssuesOf(v) == IF v = "sql" THEN SqlIssueLists ELSE {<<>>}

(* generateSqlForIssues takes a table name, no table list *)
TablesOf(v, lists) == IF v = "sql" THEN {<<>>} ELSE lists

Init ==
  /\ variant \in EntryPoints
  /\ tables \in TablesOf(variant, TableLists)
  /\ stub \in [1..NumTasks(variant, tables) ->
                  IF variant = "rulemap" THEN MapStubs
                  ELSE IF variant = "sql" THEN SqlStubs ELSE Stubs]
  /\ random \in [1..NumTasks(variant, tables) -> JitterSamples]
  /\ \A i \in DOMAIN random : ~RandomMatters(variant, stub[i]) => random[i] = 0
  /\ globalRules \in GlobalRulesOf(variant)
  /\ issues \in IssuesOf(variant)
  /\ ruleMap = <<>>
  /\ Idle

(* Runs on at most one table, with every stub and more jitter values *)
InitSingle ==
  /\ variant \in EntryPoints
  /\ tables \in TablesOf(variant,
                UNION {[1..n -> [name : TableNames, rules : {<<"">>}]] : n \in {0, 1}})
  /\ stub \in [1..NumTasks(variant, tables) -> AllStubs]
  /\ random \in [1..NumTasks(variant, tables) -> RetryJitterSamples]
  /\ \A i \in DOMAIN random : ~RandomMatters(variant, stub[i]) => random[i] = 0
  /\ globalRules \in GlobalRulesOf(variant)
  /\ issues \in IssuesOf(variant)
  /\ ruleMap = <<>>
  /\ Idle

(* The stubs of the runs that vary the rules: a response at once, or a     *)
(* rate limit followed by a fatal error                                    *)
RuleStubs ==
  {[fails |-> 0, kind |-> "429", final |-> FinalText(TextCustomers)],
   [fails |-> 1, kind |-> "429", final |-> FinalFatal]}

(* Runs that vary the tables' own rules and the rule map, which only the   *)
(* fan-out analyzeDataQuality reads                                        *)
InitRules ==
  /\ variant \in EntryPoints
  /\ tables \in IF variant = "fanout" THEN RuledTableLists
                ELSE TablesOf(variant, TableLists)
  /\ stub \in [1..NumTasks(variant, tables) -> RuleStubs]
  /\ random = [i \in 1..NumTasks(variant, tables) |-> 0]
  /\ globalRules \in GlobalRulesOf(variant)
  /\ issues \in IssuesOf(variant)
  /\ ruleMap \in IF variant = "fanout" THEN RuleMaps ELSE {<<>>}
  /\ Idle

(* The stubs of the runs that are followed to their end: a response at    *)
(* once, a response on the third call, rate limits for ever, a fatal       *)
(* error, a call that never settles                                        *)
BudgetStubs ==
  {[fails |-> 0, kind |-> "429", final |-> FinalText(TextCustomers)],
   [fails |-> 2, kind |-> "RESOURCE_EXHAUSTED", final |-> FinalText(TextCustomers)],
   [fails |-> 0, kind |-> "429", final |-> FinalRateLimit],
   [fails |-> 0, kind |-> "429", final |-> FinalFatal],
   [fails |-> 0, kind |-> "429", final |-> FinalHang]}

(* Runs on lists whose tables are named in turn, without jitter *)
InitBudget ==
  /\ variant \in EntryPoints
  /\ tables \in TablesOf(variant,
                {[k \in 1..n |->
                    [name |-> IF k % 2 = 1 THEN "dbo.customers" ELSE "sales.orders",
                     rules |-> <<"">>]] : n \in 0..MaxTables})
  /\ stub \in [1..NumTasks(variant, tables) -> BudgetStubs]
  /\ random = [i \in 1..NumTasks(variant, tables) |-> 0]
  /\ globalRules \in GlobalRulesOf(variant)
  /\ issues \in IssuesOf(variant)
  /\ ruleMap = <<>>
  /\ Idle

(* The name of the table task i analyzes *)
taskName(i) == IF variant \in {"full", "rulemap", "sql"} THEN "" ELSE tables[i].name

----------------------------------------------------------------------------
(* Operations *)

(* The entry point is called on an empty table list *)
InvokeEmpty ==
  /\ phase = "idle"
  /\ variant \in Variants
  /\ Len(tables) = 0
  /\ phase' = "done"
  /\ aggregate' = emptyAggregate(variant)
  /\ UNCHANGED <<inputVars, rulesText, targetList, sqlText, mapped, pc, attempt, delayMs, lastError, calls, waitLog,
                 client, result, thrown>>

(* The analyses are started one after the other: only the first table's   *)
(* analysis is started by the call                                         *)
InvokeSequential ==
  /\ phase = "idle"
  /\ variant \in Variants
  /\ Len(tables) > 0
  /\ phase' = "running"
  /\ rulesText' = [i \in Tasks |->
                     IF variant = "fanout" /\ i = 1
                       THEN allApplicableRules(tables[i], ruleMap)
                       ELSE rulesText[i]]
  /\ targetList' = [i \in Tasks |->
                      IF variant = "fanout" /\ i = 1
                        THEN validTargets(allTableNames(tables), tables[i].name)
                        ELSE targetList[i]]
  /\ pc' = [i \in Tasks |-> IF i = 1 THEN "inflight" ELSE "idle"]
  /\ attempt' = [i \in Tasks |-> 0]
  /\ delayMs' = [i \in Tasks |-> IF i = 1 THEN initialDelay(variant, random[i]) ELSE 0]
  /\ lastError' = [i \in Tasks |-> <<>>]
  /\ calls' = [i \in Tasks |-> IF i = 1 THEN 1 ELSE 0]
  /\ UNCHANGED <<inputVars, mapped, sqlText, waitLog, client, result, aggregate, thrown>>

(* The entry point is called on a non-empty list: every task runs up to    *)
(* its first await, the first remote call of generateContentWithRetry      *)
Invoke ==
  /\ phase = "idle"
  /\ variant \in Variants
  /\ Len(tables) > 0
  /\ phase' = "running"
  /\ rulesText' = [i \in Tasks |->
                     IF variant = "fanout"
                       THEN allApplicableRules(tables[i], ruleMap)
                       ELSE rulesText[i]]
  /\ targetList' = [i \in Tasks |->
                      IF variant = "fanout"
                        THEN validTargets(allTableNames(tables), tables[i].name)
                        ELSE targetList[i]]
  /\ pc' = [i \in Tasks |-> "inflight"]
  /\ attempt' = [i \in Tasks |-> 0]
  /\ delayMs' = [i \in Tasks |-> initialDelay(variant, random[i])]
  /\ lastError' = [i \in Tasks |-> <<>>]
  /\ calls' = [i \in Tasks |-> 1]
  /\ UNCHANGED <<inputVars, mapped, sqlText, waitLog, client, result, aggregate, thrown>>

(* mapGlobalRulesToTables is called with nothing to map: it returns {} *)
MapShortCircuit ==
  /\ phase = "idle"
  /\ variant = "rulemap"
  /\ mapShortCircuits(tables, globalRules)
  /\ phase' = "done"
  /\ mapped' = MapReturned(<<>>)
  /\ UNCHANGED <<inputVars, rulesText, targetList, sqlText, pc, attempt, delayMs, lastError, calls,
                 waitLog, client, result, aggregate, thrown>>

(* mapGlobalRulesToTables builds its prompt and runs up to the first remote *)
(* call of generateContentWithRetry                                        *)
MapInvoke ==
  /\ phase = "idle"
  /\ variant = "rulemap"
  /\ ~mapShortCircuits(tables, globalRules)
  /\ phase' = "running"
  /\ pc' = [i \in Tasks |-> "inflight"]
  /\ attempt' = [i \in Tasks |-> 0]
  /\ delayMs' = [i \in Tasks |-> initialDelay(variant, random[i])]
  /\ lastError' = [i \in Tasks |-> <<>>]
  /\ calls' = [i \in Tasks |-> 1]
  /\ UNCHANGED <<inputVars, rulesText, targetList, sqlText, mapped, waitLog, client, result, aggregate,
                 thrown>>

(* The remote call of task i returns a response: generateContentWithRetry  *)
(* returns it; its caller is still suspended on its await                  *)
RemoteReturns(i) ==
  /\ pc[i] = "inflight"
  /\ generateContent(stub[i], calls[i]).k = "text"
  /\ client' = [client EXCEPT ![i] = Fulfilled]
  /\ pc' = [pc EXCEPT ![i] = "returned"]
  /\ UNCHANGED <<inputVars, rulesText, targetList, sqlText, mapped, phase, attempt, delayMs, lastError, calls, waitLog,
                 result, aggregate, thrown>>

(* The client does not wait after the last attempt: a rate-limit error of *)
(* the last call is thrown at once                                         *)
RemoteRateLimitedLastThrows(i) ==
  /\ pc[i] = "inflight"
  /\ LET o == generateContent(stub[i], calls[i])
     IN /\ o.k = "error"
        /\ isRateLimitError(o.msg)
        /\ lastError' = [lastError EXCEPT ![i] = o.msg]
        /\ IF loopContinues(attempt[i] + 1)
             THEN /\ waitLog' = [waitLog EXCEPT ![i] = Append(@, delayMs[i])]
                  /\ pc' = [pc EXCEPT ![i] = "backoff"]
                  /\ UNCHANGED <<attempt, client>>
             ELSE /\ attempt' = [attempt EXCEPT ![i] = @ + 1]
                  /\ client' = [client EXCEPT ![i] = Rejected(o.msg)]
                  /\ pc' = [pc EXCEPT ![i] = "returned"]
                  /\ UNCHANGED waitLog
  /\ UNCHANGED <<inputVars, rulesText, targetList, sqlText, mapped, phase, delayMs,
                 calls, result, aggregate, thrown>>

(* The client retries a rate-limited call at once, without a wait *)
RemoteRateLimitedNoWait(i) ==
  /\ pc[i] = "inflight"
  /\ LET o == generateContent(stub[i], calls[i])
     IN /\ o.k = "error"
        /\ isRateLimitError(o.msg)
        /\ lastError' = [lastError EXCEPT ![i] = o.msg]
        /\ IF loopContinues(attempt[i] + 1)
             THEN /\ calls' = [calls EXCEPT ![i] = @ + 1]
                  /\ UNCHANGED <<pc, client>>
             ELSE /\ client' = [client EXCEPT ![i] = Rejected(o.msg)]
                  /\ pc' = [pc EXCEPT ![i] = "returned"]
                  /\ UNCHANGED calls
  /\ attempt' = [attempt EXCEPT ![i] = @ + 1]
  /\ UNCHANGED <<inputVars, rulesText, targetList, sqlText, mapped, phase, delayMs, waitLog,
                 result, aggregate, thrown>>

(* The remote call of task i fails with a rate-limit error: the client     *)
(* starts the backoff wait                                                 *)
RemoteRateLimited(i) ==
  /\ pc[i] = "inflight"
  /\ LET o == generateContent(stub[i], calls[i])
     IN /\ o.k = "error"
        /\ isRateLimitError(o.msg)
        /\ lastError' = [lastError EXCEPT ![i] = o.msg]
  /\ waitLog' = [waitLog EXCEPT ![i] = Append(@, delayMs[i])]
  /\ pc' = [pc EXCEPT ![i] = "backoff"]
  /\ UNCHANGED <<inputVars, rulesText, targetList, sqlText, mapped, phase, attempt, delayMs, calls, client, result,
                 aggregate, thrown>>

(* The remote call of task i fails with another error: the client rethrows *)
(* it at once; its caller is still suspended on its await                  *)
RemoteFails(i) ==
  /\ pc[i] = "inflight"
  /\ LET o == generateContent(stub[i], calls[i])
     IN /\ o.k = "error"
        /\ ~isRateLimitError(o.msg)
        /\ lastError' = [lastError EXCEPT ![i] = o.msg]
        /\ client' = [client EXCEPT ![i] = Rejected(o.msg)]
  /\ pc' = [pc EXCEPT ![i] = "returned"]
  /\ UNCHANGED <<inputVars, rulesText, targetList, sqlText, mapped, phase, attempt, delayMs, calls, waitLog, result, aggregate, thrown>>

(* The loop variable is not incremented: the loop never reaches its bound *)
BackoffElapsesNoIncrement(i) ==
  /\ pc[i] = "backoff"
  /\ delayMs' = [delayMs EXCEPT ![i] = 2 * @]
  /\ calls' = [calls EXCEPT ![i] = @ + 1]
  /\ pc' = [pc EXCEPT ![i] = "inflight"]
  /\ UNCHANGED <<inputVars, rulesText, targetList, sqlText, mapped, phase, attempt,
                 lastError, waitLog, client, result, aggregate, thrown>>

(* The delay is kept in one place for every call: a backoff of one task    *)
(* doubles the delay of all of them                                        *)
BackoffElapsesShared(i) ==
  /\ pc[i] = "backoff"
  /\ delayMs' = [j \in Tasks |-> 2 * delayMs[j]]
  /\ attempt' = [attempt EXCEPT ![i] = @ + 1]
  /\ IF loopContinues(attempt[i] + 1)
       THEN /\ calls' = [calls EXCEPT ![i] = @ + 1]
            /\ pc' = [pc EXCEPT ![i] = "inflight"]
            /\ UNCHANGED client
       ELSE /\ client' = [client EXCEPT ![i] = Rejected(lastError[i])]
            /\ pc' = [pc EXCEPT ![i] = "returned"]
            /\ UNCHANGED calls
  /\ UNCHANGED <<inputVars, rulesText, targetList, sqlText, mapped, phase, lastError, waitLog, result, aggregate, thrown>>

(* The backoff timer of task i fires: delayMs doubles, i++, and the loop   *)
(* either issues the next remote call or ends with throw lastError; its    *)
(* caller is still suspended on its await                                  *)
BackoffElapses(i) ==
  /\ pc[i] = "backoff"
  /\ delayMs' = [delayMs EXCEPT ![i] = 2 * @]
  /\ attempt' = [attempt EXCEPT ![i] = @ + 1]
  /\ IF loopContinues(attempt[i] + 1)
       THEN /\ calls' = [calls EXCEPT ![i] = @ + 1]
            /\ pc' = [pc EXCEPT ![i] = "inflight"]
            /\ UNCHANGED client
       ELSE /\ client' = [client EXCEPT ![i] = Rejected(lastError[i])]
            /\ pc' = [pc EXCEPT ![i] = "returned"]
            /\ UNCHANGED calls
  /\ UNCHANGED <<inputVars, rulesText, targetList, sqlText, mapped, phase, lastError, waitLog, result, aggregate, thrown>>

(* The await of analyzeSingleTable resumes with the response: the rest of  *)
(* the try block runs, and the catch block when it throws                  *)
AnalysisResumes(i) ==
  /\ variant \in {"fanout", "legacy"}
  /\ pc[i] = "returned"
  /\ client[i] = Fulfilled
  /\ result' = [result EXCEPT
                  ![i] = afterAwait(variant, taskName(i), client[i],
                                    generateContent(stub[i], calls[i]).text)]
  /\ pc' = [pc EXCEPT ![i] = "settled"]
  /\ UNCHANGED <<inputVars, rulesText, targetList, sqlText, mapped, phase, attempt,
                 delayMs, lastError, calls, waitLog, client, aggregate, thrown>>

(* The await of analyzeSingleTable resumes with the error the client threw: *)
(* the catch block runs                                                    *)
AnalysisCatches(i) ==
  /\ variant \in {"fanout", "legacy"}
  /\ pc[i] = "returned"
  /\ client[i].state = "rejected"
  /\ result' = [result EXCEPT
                  ![i] = afterAwait(variant, taskName(i), client[i], NoText)]
  /\ pc' = [pc EXCEPT ![i] = "settled"]
  /\ UNCHANGED <<inputVars, rulesText, targetList, sqlText, mapped, phase, attempt,
                 delayMs, lastError, calls, waitLog, client, aggregate, thrown>>

(* The merge does not wait for every analysis: as soon as one has settled  *)
(* it merges the tables that have settled so far                           *)
MergeFanOutEager ==
  /\ phase = "running"
  /\ variant = "fanout"
  /\ \E i \in Tasks : pc[i] = "settled"
  /\ LET settled == SelectSeq([i \in 1..Len(tables) |-> i],
                              LAMBDA i : pc[i] = "settled")
         tbls == [k \in 1..Len(settled) |-> tables[settled[k]]]
         res == [k \in 1..Len(settled) |-> result[settled[k]]]
     IN IF mergeThrows(tbls, res)
          THEN /\ phase' = "failed"
               /\ thrown' = mergeError(tbls, res)
               /\ UNCHANGED aggregate
          ELSE /\ phase' = "done"
               /\ aggregate' = mergeFanOut(tbls, res)
               /\ UNCHANGED thrown
  /\ UNCHANGED <<inputVars, rulesText, targetList, sqlText, mapped, pc, attempt, delayMs, lastError,
                 calls, waitLog, client, result>>

(* Promise.all has resolved: the fan-out merge loop runs to its end and    *)
(* the entry point resolves, or the loop throws and the entry point rejects *)
MergeFanOut ==
  /\ phase = "running"
  /\ variant = "fanout"
  /\ \A i \in Tasks : pc[i] = "settled"
  /\ IF mergeThrows(tables, result)
       THEN /\ phase' = "failed"
            /\ thrown' = mergeError(tables, result)
            /\ UNCHANGED aggregate
       ELSE /\ phase' = "done"
            /\ aggregate' = mergeFanOut(tables, result)
            /\ UNCHANGED thrown
  /\ UNCHANGED <<inputVars, rulesText, targetList, sqlText, mapped, pc, attempt, delayMs, lastError, calls, waitLog,
                 client, result>>

(* Promise.all has resolved in the legacy file: the three flatMap calls *)
MergeLegacy ==
  /\ phase = "running"
  /\ variant = "legacy"
  /\ \A i \in Tasks : pc[i] = "settled"
  /\ phase' = "done"
  /\ aggregate' = mergeLegacy(result)
  /\ UNCHANGED <<inputVars, rulesText, targetList, sqlText, mapped, pc, attempt, delayMs, lastError, calls, waitLog,
                 client, result, thrown>>

(* The await of performFullAnalysis resumes: it returns the parsed         *)
(* response or throws its own error                                        *)
FullAnalysisEnds ==
  /\ phase = "running"
  /\ variant = "full"
  /\ \A i \in Tasks : pc[i] = "returned"
  /\ LET r == afterAwait(variant, taskName(1), client[1],
                         generateContent(stub[1], calls[1]).text)
     IN /\ result' = [result EXCEPT ![1] = r]
        /\ IF r.ok
             THEN /\ phase' = "done"
                  /\ aggregate' = fullResponse(r)
                  /\ UNCHANGED thrown
             ELSE /\ phase' = "failed"
                  /\ thrown' = r.err
                  /\ UNCHANGED aggregate
  /\ pc' = [pc EXCEPT ![1] = "settled"]
  /\ UNCHANGED <<inputVars, rulesText, targetList, sqlText, mapped, attempt, delayMs, lastError, calls, waitLog,
                 client>>

(* mapGlobalRulesToTables converts the parsed response into the map, or    *)
(* its catch block takes over; an error the catch block lets through       *)
(* rejects the call                                                        *)
MapRulesEnds ==
  /\ phase = "running"
  /\ variant = "rulemap"
  /\ \A i \in Tasks : pc[i] = "returned"
  /\ LET text == trim(generateContent(stub[1], calls[1]).text)
         r == afterAwait(variant, taskName(1), client[1],
                         generateContent(stub[1], calls[1]).text)
         out == mapCatch(tryRuleMap(r, text))
     IN /\ result' = [result EXCEPT ![1] = r]
        /\ IF out.ok
             THEN /\ phase' = "done"
                  /\ mapped' = out
                  /\ UNCHANGED thrown
             ELSE /\ phase' = "failed"
                  /\ thrown' = out.err
                  /\ UNCHANGED mapped
  /\ pc' = [pc EXCEPT ![1] = "settled"]
  /\ UNCHANGED <<inputVars, rulesText, targetList, sqlText, attempt, delayMs, lastError, calls,
                 waitLog, client, aggregate>>

(* generateSqlForIssues is called and the callback of issues.filter runs   *)
(* into an issue without a description: the call rejects with a TypeError  *)
SqlFilterThrows ==
  /\ phase = "idle"
  /\ variant = "sql"
  /\ filterThrows(issues)
  /\ phase' = "failed"
  /\ thrown' = UndefinedTypeErrorMsg
  /\ UNCHANGED <<inputVars, rulesText, targetList, sqlText, mapped, pc, attempt,
                 delayMs, lastError, calls, waitLog, client, result, aggregate>>

(* generateSqlForIssues is called and no issue is actionable: it returns   *)
(* the fixed comment                                                       *)
SqlShortCircuit ==
  /\ phase = "idle"
  /\ variant = "sql"
  /\ ~filterThrows(issues)
  /\ Len(actionableIssues(issues)) = 0
  /\ phase' = "done"
  /\ sqlText' = SqlNoActionable
  /\ UNCHANGED <<inputVars, rulesText, targetList, mapped, pc, attempt, delayMs,
                 lastError, calls, waitLog, client, result, aggregate, thrown>>

(* generateSqlForIssues builds its prompt and runs up to the first remote  *)
(* call of generateContentWithRetry                                        *)
SqlInvoke ==
  /\ phase = "idle"
  /\ variant = "sql"
  /\ ~filterThrows(issues)
  /\ Len(actionableIssues(issues)) > 0
  /\ phase' = "running"
  /\ pc' = [i \in Tasks |-> "inflight"]
  /\ attempt' = [i \in Tasks |-> 0]
  /\ delayMs' = [i \in Tasks |-> initialDelay(variant, random[i])]
  /\ lastError' = [i \in Tasks |-> <<>>]
  /\ calls' = [i \in Tasks |-> 1]
  /\ UNCHANGED <<inputVars, rulesText, targetList, sqlText, mapped, waitLog, client,
                 result, aggregate, thrown>>

(* The await of generateSqlForIssues resumes: it returns response.text, or *)
(* the fixed comment of its catch block                                    *)
SqlEnds ==
  /\ phase = "running"
  /\ variant = "sql"
  /\ \A i \in Tasks : pc[i] = "returned"
  /\ phase' = "done"
  /\ sqlText' = IF client[1] = Fulfilled
                  THEN SqlResponse(generateContent(stub[1], calls[1]).text)
                  ELSE SqlErrorComment
  /\ pc' = [pc EXCEPT ![1] = "settled"]
  /\ UNCHANGED <<inputVars, rulesText, targetList, mapped, attempt, delayMs,
                 lastError, calls, waitLog, client, result, aggregate, thrown>>

Next ==
  \/ InvokeEmpty
  \/ Invoke
  \/ MapShortCircuit
  \/ MapInvoke
  \/ \E i \in Tasks : RemoteReturns(i)
  \/ \E i \in Tasks : RemoteRateLimited(i)
  \/ \E i \in Tasks : RemoteFails(i)
  \/ \E i \in Tasks : BackoffElapses(i)
  \/ \E i \in Tasks : AnalysisResumes(i)
  \/ \E i \in Tasks : AnalysisCatches(i)
  \/ MergeFanOut
  \/ MergeLegacy
  \/ FullAnalysisEnds
  \/ MapRulesEnds
  \/ SqlFilterThrows
  \/ SqlShortCircuit
  \/ SqlInvoke
  \/ SqlEnds

Spec == Init /\ [][Next]_vars

SpecSingle == InitSingle /\ [][Next]_vars

SpecRules == InitRules /\ [][Next]_vars

(* The event loop runs every continuation that is ready and fires every    *)
(* timer that was set: a step that can be taken is taken eventually.  A    *)
(* remote call that never settles enables no step.                         *)
Fairness == WF_vars(Next)

SpecFair == InitBudget /\ [][Next]_vars /\ Fairness

----------------------------------------------------------------------------
(* Vocabulary of the properties *)

IsInputName(n) == \E i \in 1..Len(tables) : tables[i].name = n

IsOrchestrator == variant \in {"fanout", "legacy"}

Settled(i) == pc[i] = "settled"

(* generateContentWithRetry has returned or thrown for task i; its caller  *)
(* may not have resumed yet                                                *)
ClientSettled(i) == pc[i] \in {"returned", "settled"}

(* The stub of a task never lets a call succeed: every call is rate-limited *)
AlwaysRateLimited(s) == s.final.k = "ratelimit"

(* The stub fails call k with a non-retryable error, after k-1 rate limits *)
FailsFatallyOn(s, k) == s.final.k = "error" /\ s.fails = k - 1

(* The stub ends in a response text *)
Responds(s) == s.final.k = "text"

(* The error a response text runs into in the per-table pipeline of        *)
(* variant v, <<>> when it passes                                          *)
FailureOf(v, text) ==
  IF v = "fanout" /\ (text.first # "{" \/ text.last # "}") THEN InvalidJsonMsg
  ELSE IF text.json.k = "invalid" THEN SyntaxErrorMsg(text)
  ELSE IF text.json.k = "null" THEN NullTypeErrorMsg("issues_detected")
  ELSE IF text.json.obj.issues_detected.t = "number" THEN ForEachMsg("issues_detected")
  ELSE <<>>

(* Every section of the JSON object is an array or missing *)
SectionsAreArrays(obj) ==
  /\ obj.issues_detected.t # "number"
  /\ obj.rule_effectiveness.t # "number"
  /\ obj.rule_conflicts.t # "number"
  /\ obj.inferred_relationships.t # "number"

(* The stub ends in a response that the per-table pipeline accepts and     *)
(* whose sections are arrays                                               *)
RespondsWell(s) ==
  /\ Responds(s)
  /\ FailureOf(variant, s.final.text) = <<>>
  /\ SectionsAreArrays(s.final.text.json.obj)

(* The error the pipeline of a settled task failed with, <<>> when none *)
PipelineError(i) ==
  IF client[i].state = "rejected" THEN client[i].reason
  ELSE FailureOf(variant, generateContent(stub[i], calls[i]).text)

IsAnalysisError(issue, name) ==
  /\ issue.table_name = name
  /\ issue.type = "Analysis Error"
  /\ issue.severity = "High"

(* Own(x): the items a table's returned array x holds *)
Own(x) == IF x.t = "array" THEN x.v ELSE <<>>

OwnEdges(i) ==
  LET rels == Own(result[i].res.inferred_relationships)
      kept == SelectSeq(rels, LAMBDA rel : IsInputName(rel.to_table))
  IN [k \in 1..Len(kept) |->
        [from |-> tables[i].name, to |-> kept[k].to_table, label |-> kept[k].on_column]]

OwnHotspots(i) ==
  IF result[i].res.hotspot_score.def
    THEN <<[tableName |-> tables[i].name, score |-> result[i].res.hotspot_score.n]>>
    ELSE <<>>

(* The last table of the input list that has the same name as table i *)
LastNamesake(i) ==
  CHOOSE j \in 1..Len(tables) :
     /\ tables[j].name = tables[i].name
     /\ \A k \in 1..Len(tables) : k > j => tables[k].name # tables[i].name

----------------------------------------------------------------------------
(* C1 -- Failure isolation: in a fan-out run on N >= 2 tables where exactly *)
(* one table's remote call always throws a non-retryable error and every   *)
(* other table's call ends in a well-formed response, the call completes, *)
(* the failing table contributes exactly one "Analysis Error" issue of     *)
(* severity High, and every other table contributes its own issues, rule   *)
(* entries, node, edges and hotspot entry, as in a run where all calls     *)
(* succeed.                                                                *)

OneTableFails ==
  /\ variant = "fanout"
  /\ Len(tables) >= 2
  /\ \E f \in Tasks :
        /\ FailsFatallyOn(stub[f], 1)
        /\ \A i \in Tasks \ {f} : RespondsWell(stub[i])

C1_FailureIsolation ==
  (OneTableFails /\ \A i \in Tasks : Settled(i) /\ phase # "running") =>
     /\ phase = "done"
     /\ LET n == Len(tables)
        IN /\ aggregate.issues.v =
                Flatten([i \in 1..n |-> Own(result[i].res.issues_detected)], n)
           /\ aggregate.ruleEffectiveness.v =
                Flatten([i \in 1..n |-> Own(result[i].res.rule_effectiveness)], n)
           /\ aggregate.ruleConflicts.v =
                Flatten([i \in 1..n |-> Own(result[i].res.rule_conflicts)], n)
           /\ Len(aggregate.viz.nodes) = n
           /\ aggregate.viz.edges = Flatten([i \in 1..n |-> OwnEdges(i)], n)
           /\ aggregate.viz.hotspots = Flatten([i \in 1..n |-> OwnHotspots(i)], n)
           /\ \A f \in Tasks : FailsFatallyOn(stub[f], 1) =>
                 /\ Len(Own(result[f].res.issues_detected)) = 1
                 /\ IsAnalysisError(result[f].res.issues_detected.v[1], tables[f].name)

----------------------------------------------------------------------------
(* C2 -- Order invariant of the merge: whatever the order in which the     *)
(* per-table analyses complete, the aggregate issues, ruleEffectiveness    *)
(* and ruleConflicts arrays of analyzeDataQuality are the concatenation of *)
(* the arrays returned for T1, then T2, ..., then Tn, each block in the    *)
(* order of its response.                                                  *)

AllSectionsAreArrays == \A i \in Tasks : SectionsAreArrays(result[i].res)

C2_OrderInvariant ==
  (IsOrchestrator /\ phase = "done" /\ Len(tables) > 0 /\ AllSectionsAreArrays) =>
     LET n == Len(tables)
     IN /\ aggregate.issues.v =
             Flatten([i \in 1..n |-> Own(result[i].res.issues_detected)], n)
        /\ aggregate.ruleEffectiveness.v =
             Flatten([i \in 1..n |-> Own(result[i].res.rule_effectiveness)], n)
        /\ aggregate.ruleConflicts.v =
             Flatten([i \in 1..n |-> Own(result[i].res.rule_conflicts)], n)

----------------------------------------------------------------------------
(* C3 -- The batch never fails: for every non-empty table list and every   *)
(* outcome of the remote calls, analyzeDataQuality resolves with an        *)
(* aggregate and never rejects.                                            *)

C3_BatchNeverFails == IsOrchestrator => phase # "failed"

----------------------------------------------------------------------------
(* C4 -- Retry bound: when every remote call of a task fails with a        *)
(* rate-limit error, generateContentWithRetry makes exactly 3 remote       *)
(* calls, never a 4th, and then rejects with the error of the 3rd call.    *)

C4_RetryBound ==
  \A i \in Tasks : AlwaysRateLimited(stub[i]) =>
     /\ calls[i] <= 3
     /\ client[i].state # "fulfilled"
     /\ ClientSettled(i) <=> client[i] # Pending
     /\ ClientSettled(i) =>
          /\ calls[i] = 3
          /\ client[i] = Rejected(RateLimitMsg(stub[i].kind, 3))

C4_Witness ==
  \E i \in Tasks :
     /\ AlwaysRateLimited(stub[i])
     /\ Settled(i)
     /\ calls[i] = 3
     /\ client[i].state = "rejected"

----------------------------------------------------------------------------
(* C5 -- Non-retry fast-fail: a non-rate-limit error on call k, after k-1  *)
(* rate-limit errors, is propagated at once: exactly k calls are made, no  *)
(* backoff wait follows the error (k-1 waits in all), and the client       *)
(* rejects with that k-th error; for k = 1 this is exactly one attempt.    *)

C5_FastFail ==
  \A i \in Tasks : \A k \in 1..3 : FailsFatallyOn(stub[i], k) =>
     /\ calls[i] <= k
     /\ Len(waitLog[i]) <= k - 1
     /\ pc[i] # "inflight" /\ calls[i] = k => ClientSettled(i)
     /\ ClientSettled(i) =>
          /\ calls[i] = k
          /\ Len(waitLog[i]) = k - 1
          /\ client[i] = Rejected(FatalMsg(k))

C5_Witness ==
  \E i \in Tasks :
     /\ FailsFatallyOn(stub[i], 2)
     /\ Settled(i)
     /\ calls[i] = 2
     /\ client[i].state = "rejected"

----------------------------------------------------------------------------
(* C6 -- Degraded result: whenever the per-table pipeline of               *)
(* analyzeSingleTable fails (remote error, guard, JSON parse error or an   *)
(* exception while post-processing), the task does not throw and returns   *)
(* exactly one issue with the table's name, type "Analysis Error",         *)
(* severity High and a description containing the error message, with      *)
(* empty rule_effectiveness and rule_conflicts arrays.                     *)

C6_DegradedResult ==
  \A i \in Tasks :
     (IsOrchestrator /\ Settled(i) /\ PipelineError(i) # <<>>) =>
        /\ result[i].ok
        /\ result[i].res.issues_detected.t = "array"
        /\ Len(result[i].res.issues_detected.v) = 1
        /\ IsAnalysisError(result[i].res.issues_detected.v[1], tables[i].name)
        /\ ContainsSeq(result[i].res.issues_detected.v[1].description, PipelineError(i))
        /\ result[i].res.rule_effectiveness = Arr(<<>>)
        /\ result[i].res.rule_conflicts = Arr(<<>>)

----------------------------------------------------------------------------
(* C7 -- table_name enforcement: every issue analyzeSingleTable returns    *)
(* for table T has table_name equal to T.name, whether the response's      *)
(* issue carried another name, an empty one or none.                       *)

C7_TableNameEnforced ==
  \A i \in Tasks :
     (IsOrchestrator /\ Settled(i)) =>
        \A k \in 1..Len(Own(result[i].res.issues_detected)) :
           result[i].res.issues_detected.v[k].table_name = tables[i].name

----------------------------------------------------------------------------
(* C8 -- Empty input short-circuit: on an empty table list the entry point *)
(* resolves with empty issues, rule-effectiveness and rule-conflict arrays *)
(* and null or empty visualization data, and makes no remote call.         *)

IsEmptyViz(viz) ==
  \/ viz.t = "null"
  \/ viz.t = "object" /\ viz.nodes = <<>> /\ viz.edges = <<>> /\ viz.hotspots = <<>>

C8_EmptyShortCircuit ==
  (variant \in Variants /\ Len(tables) = 0 /\ phase # "idle") =>
     /\ phase = "done"
     /\ aggregate.issues = Arr(<<>>)
     /\ aggregate.ruleEffectiveness = Arr(<<>>)
     /\ aggregate.ruleConflicts = Arr(<<>>)
     /\ IsEmptyViz(aggregate.viz)
     /\ \A i \in DOMAIN calls : calls[i] = 0

----------------------------------------------------------------------------
(* C9 -- Edge target invariant: in every visualization dataset returned by *)
(* analyzeDataQuality, every edge's to and from is the name of an input    *)
(* table, so a reported relationship to a table outside the input list     *)
(* yields no edge, and every input table still has its node.               *)

C9_EdgeTargets ==
  (variant = "fanout" /\ phase = "done" /\ Len(tables) > 0) =>
     /\ aggregate.viz.t = "object"
     /\ \A k \in 1..Len(aggregate.viz.edges) :
           /\ IsInputName(aggregate.viz.edges[k].to)
           /\ IsInputName(aggregate.viz.edges[k].from)
     /\ \A i \in 1..Len(tables) :
           \E k \in 1..Len(aggregate.viz.nodes) :
              aggregate.viz.nodes[k] = [id |-> tables[i].name, label |-> tables[i].name]

(* A merged table reported a relationship to a table outside the input *)
C9_Witness ==
  /\ variant = "fanout"
  /\ phase = "done"
  /\ \E i \in Tasks :
        \E k \in 1..Len(Own(result[LastNamesake(i)].res.inferred_relationships)) :
           ~IsInputName(result[LastNamesake(i)].res.inferred_relationships.v[k].to_table)

----------------------------------------------------------------------------
(* C10 -- Hotspot coverage.                                                *)
(* As claimed (C10_OneHotspotPerTable): the hotspots list has exactly one  *)
(* entry per input table, degraded tables included, each with a            *)
(* non-negative integer score.                                             *)
(* As amended (C10_HotspotsOfScoredTables): the hotspots list holds, in    *)
(* input order, one entry for each input table whose merged result defines *)
(* hotspot_score, with the score the response reported; a table whose      *)
(* analysis degraded to "Analysis Error", or whose response has no score,  *)
(* has no entry.                                                           *)

C10_OneHotspotPerTable ==
  (variant = "fanout" /\ phase = "done" /\ Len(tables) > 0) =>
     /\ Len(aggregate.viz.hotspots) = Len(tables)
     /\ \A i \in 1..Len(tables) :
           /\ aggregate.viz.hotspots[i].tableName = tables[i].name
           /\ aggregate.viz.hotspots[i].score >= 0

(* The positions of the input list whose merged result has a score *)
ScoredPositions ==
  {i \in 1..Len(tables) : result[LastNamesake(i)].res.hotspot_score.def}

(* The k-th smallest scored position *)
ScoredPosition(k) ==
  CHOOSE i \in ScoredPositions : Cardinality({j \in ScoredPositions : j < i}) = k - 1

IsDegraded(i) ==
  /\ Len(Own(result[i].res.issues_detected)) = 1
  /\ result[i].res.issues_detected.v[1].type = "Analysis Error"

C10_HotspotsOfScoredTables ==
  (variant = "fanout" /\ phase = "done" /\ Len(tables) > 0) =>
     /\ Len(aggregate.viz.hotspots) = Cardinality(ScoredPositions)
     /\ \A k \in 1..Len(aggregate.viz.hotspots) :
           aggregate.viz.hotspots[k] =
              [tableName |-> tables[ScoredPosition(k)].name,
               score |-> result[LastNamesake(ScoredPosition(k))].res.hotspot_score.n]
     /\ \A i \in 1..Len(tables) : IsDegraded(LastNamesake(i)) => i \notin ScoredPositions

(* A degraded table is merged next to a table that reported a score *)
C10_Witness ==
  /\ variant = "fanout"
  /\ phase = "done"
  /\ \E i, j \in 1..Len(tables) :
        /\ IsDegraded(LastNamesake(i))
        /\ j \in ScoredPositions
        /\ Len(aggregate.viz.hotspots) = 1
        /\ aggregate.viz.hotspots[1].tableName = tables[j].name

----------------------------------------------------------------------------
(* C11 -- mapGlobalRulesToTables short-circuit: when globalRules is empty  *)
(* or only whitespace, or the table list is empty, the call makes no       *)
(* remote call and resolves with the empty map {}; as the result depends   *)
(* on nothing else, repeating the call gives the same result.              *)

OnlyWhitespace(str) == \A k \in 1..Len(str) : str[k] \in {" ", "\n", "\t"}

NothingToMap == OnlyWhitespace(globalRules) \/ Len(tables) = 0

C11_MapShortCircuit ==
  (variant = "rulemap" /\ NothingToMap) =>
     /\ \A i \in DOMAIN calls : calls[i] = 0 /\ pc[i] = "idle"
     /\ phase \in {"idle", "done"}
     /\ phase = "done" => mapped = MapReturned(<<>>)

(* The call has returned for rules of whitespace only and a table *)
C11_Witness ==
  /\ variant = "rulemap"
  /\ phase = "done"
  /\ Len(tables) > 0
  /\ globalRules # <<>>
  /\ OnlyWhitespace(globalRules)
  /\ mapped = MapReturned(<<>>)

----------------------------------------------------------------------------
(* C12 -- mapGlobalRulesToTables never fails visibly: for non-empty rules  *)
(* and tables the call never rejects, and whenever the remote call failed  *)
(* (after the retry policy) or the response could not be parsed or         *)
(* converted, it resolves with the empty map {}.                           *)

(* The response text of the rule mapper's remote call that returned *)
MapResponse == generateContent(stub[1], calls[1]).text

(* The remote call failed, or its response is not a JSON array of objects *)
MapFailed ==
  \/ client[1].state = "rejected"
  \/ /\ client[1].state = "fulfilled"
     /\ \/ MapResponse.json.k # "array"
        \/ \E k \in 1..Len(MapResponse.items) : MapResponse.items[k].t # "object"

C12_MapNeverThrows ==
  (variant = "rulemap" /\ ~NothingToMap) =>
     /\ phase # "failed"
     /\ (phase = "done" /\ MapFailed) => mapped = MapReturned(<<>>)
     /\ phase = "done" => mapped.ok

(* The call has returned after the retries were exhausted *)
C12_Witness ==
  /\ variant = "rulemap"
  /\ phase = "done"
  /\ ~NothingToMap
  /\ client[1].state = "rejected"
  /\ calls[1] = 3
  /\ mapped = MapReturned(<<>>)

----------------------------------------------------------------------------
(* C13 -- Graph construction result: for a non-empty table list the        *)
(* visualization has one node {id: name, label: name} per input table in   *)
(* input order; for each table in input order and each relationship its    *)
(* analysis reported, in reported order, an edge {from: table name, to:    *)
(* to_table, label: on_column} exactly when to_table is an input table     *)
(* name; and a hotspot {tableName, score} for each table, in input order,  *)
(* whose result defines hotspot_score.  For [dbo.customers, sales.orders]  *)
(* with sales.orders reporting (dbo.customers, customer_id) and score 5    *)
(* and dbo.customers reporting no relationship and score 2, that is two    *)
(* nodes, the edge sales.orders -> dbo.customers labelled customer_id and  *)
(* the hotspots (dbo.customers, 2), (sales.orders, 5).                     *)

(* The scenario of the example has run *)
ExampleScenario ==
  /\ variant = "fanout"
  /\ phase = "done"
  /\ allTableNames(tables) = <<"dbo.customers", "sales.orders">>
  /\ stub[1].final = FinalText(TextCustomers)
  /\ stub[2].final = FinalText(TextOrders)

ExampleGraph ==
  VizObj(<<[id |-> "dbo.customers", label |-> "dbo.customers"],
           [id |-> "sales.orders", label |-> "sales.orders"]>>,
         <<[from |-> "sales.orders", to |-> "dbo.customers", label |-> "customer_id"]>>,
         <<[tableName |-> "dbo.customers", score |-> 2],
           [tableName |-> "sales.orders", score |-> 5]>>)

C13_GraphConstruction ==
  /\ (variant = "fanout" /\ phase = "done" /\ Len(tables) > 0
        /\ AllSectionsAreArrays) =>
        LET n == Len(tables)
        IN /\ aggregate.viz.t = "object"
           /\ aggregate.viz.nodes =
                [i \in 1..n |-> [id |-> tables[i].name, label |-> tables[i].name]]
           /\ aggregate.viz.edges = Flatten([i \in 1..n |-> OwnEdges(i)], n)
           /\ aggregate.viz.hotspots = Flatten([i \in 1..n |-> OwnHotspots(i)], n)
  /\ ExampleScenario => aggregate.viz = ExampleGraph

----------------------------------------------------------------------------
(* C14 -- Null versus empty graph: analyzeDataQuality returns              *)
(* schemaVisualizationData = null exactly when the graph has no node,      *)
(* which is when the table list is empty; for every non-empty table list   *)
(* the returned visualization is an object with at least one node, even    *)
(* when the analysis of every table failed.                                *)

C14_NullOnlyWhenEmpty ==
  (variant = "fanout" /\ phase = "done") =>
     /\ aggregate.viz.t \in {"null", "object"}
     /\ aggregate.viz.t = "null" <=> Len(tables) = 0
     /\ aggregate.viz.t = "object" => Len(aggregate.viz.nodes) >= 1
     /\ aggregate.viz.t = "null" => Len(aggregate.viz.nodes) = 0

(* The call has returned a graph although every table's analysis failed *)
C14_Witness ==
  /\ variant = "fanout"
  /\ phase = "done"
  /\ Len(tables) >= 2
  /\ \A i \in Tasks : IsDegraded(i)
  /\ aggregate.viz.t = "object"
  /\ Len(aggregate.viz.nodes) = Len(tables)
  /\ aggregate.viz.edges = <<>>

----------------------------------------------------------------------------
(* C15 -- The merge happens only after all per-table work has settled:     *)
(* while any of the N per-table analyses of analyzeDataQuality is still    *)
(* running, nothing has been merged and the call has not completed, so a   *)
(* fast table never triggers a partial merge; and when the call completes, *)
(* every table, however slow, has been merged (it has its node).           *)

C15_MergeAfterAllSettled ==
  IsOrchestrator =>
     /\ (\E i \in Tasks : ~Settled(i)) =>
           /\ aggregate = NoAggregate
           /\ phase \in {"idle", "running"}
     /\ (variant = "fanout" /\ phase = "done" /\ Len(tables) > 0) =>
           aggregate.viz.nodes = [i \in 1..Len(tables) |-> nodeOf(tables[i].name)]

(* A fast table has settled while a slow one waits to retry: no merge yet *)
C15_Witness ==
  /\ variant = "fanout"
  /\ phase = "running"
  /\ aggregate = NoAggregate
  /\ \E i, j \in Tasks : Settled(i) /\ pc[j] = "backoff"

----------------------------------------------------------------------------
(* C16 -- No cancellation or timeout: if the remote call of one table      *)
(* never resolves (it neither returns nor throws), analyzeDataQuality      *)
(* never completes and never produces an aggregate, even when the analyses *)
(* of all other tables have completed.                                     *)

(* The stub's call that follows its rate-limit failures never settles *)
Hangs(s) == s.final.k = "hang"

C16_HangBlocksBatch ==
  (IsOrchestrator /\ \E i \in Tasks : Hangs(stub[i])) =>
     /\ phase \in {"idle", "running"}
     /\ aggregate = NoAggregate
     /\ thrown = <<>>
     /\ \A i \in Tasks : Hangs(stub[i]) => ~Settled(i)

(* Every other table has completed and the call still waits for the one    *)
(* whose remote call hangs                                                 *)
C16_Witness ==
  /\ variant = "fanout"
  /\ phase = "running"
  /\ Len(tables) >= 2
  /\ \E i \in Tasks :
        /\ Hangs(stub[i])
        /\ pc[i] = "inflight"
        /\ \A j \in Tasks \ {i} : Settled(j)

----------------------------------------------------------------------------
(* C17 -- Rate-limit exhaustion degrades only the affected table: a table  *)
(* whose remote call fails with a rate-limit error on all 3 attempts ends, *)
(* after exactly 3 remote calls, with the degraded "Analysis Error" result *)
(* whose description carries the message of the last error; and when the   *)
(* other tables get well-formed responses, analyzeDataQuality completes.   *)

C17_ExhaustionDegradesTable ==
  variant = "fanout" =>
     /\ \A i \in Tasks : (AlwaysRateLimited(stub[i]) /\ Settled(i)) =>
           /\ calls[i] = 3
           /\ result[i].ok
           /\ result[i].res.issues_detected.t = "array"
           /\ Len(result[i].res.issues_detected.v) = 1
           /\ IsAnalysisError(result[i].res.issues_detected.v[1], tables[i].name)
           /\ result[i].res.issues_detected.v[1].description =
                 DescriptionPrefix \o RateLimitMsg(stub[i].kind, 3)
     /\ ((\A i \in Tasks : AlwaysRateLimited(stub[i]) \/ RespondsWell(stub[i]))
          /\ phase # "running") => phase \in {"idle", "done"}

(* The call has completed for a table that exhausted its retries and a     *)
(* table that got a well-formed response                                   *)
C17_Witness ==
  /\ variant = "fanout"
  /\ phase = "done"
  /\ \E i, j \in Tasks :
        /\ AlwaysRateLimited(stub[i])
        /\ calls[i] = 3
        /\ IsDegraded(i)
        /\ RespondsWell(stub[j])
        /\ tables[i].name # tables[j].name

----------------------------------------------------------------------------
(* C18 -- Structural guard of analyzeSingleTable: a response whose trimmed *)
(* text does not start with "{" or does not end with "}" is not parsed or  *)
(* returned; the table gets the degraded "Analysis Error" result, as after *)
(* a remote failure, with "Invalid JSON response received from API." in    *)
(* its description.  A response that passes the guard but is not valid     *)
(* JSON is degraded the same way, with the parse error in the description. *)

(* The first and last non-blank characters of the text are not { and } *)
FailsGuard(text) == text.first # "{" \/ text.last # "}"

(* The degraded result of table i, with msg as the error's message *)
IsDegradedWith(i, msg) ==
  /\ result[i].ok
  /\ result[i].res.issues_detected.t = "array"
  /\ Len(result[i].res.issues_detected.v) = 1
  /\ IsAnalysisError(result[i].res.issues_detected.v[1], tables[i].name)
  /\ result[i].res.issues_detected.v[1].description = DescriptionPrefix \o msg
  /\ result[i].res.rule_effectiveness = Arr(<<>>)
  /\ result[i].res.rule_conflicts = Arr(<<>>)
  /\ result[i].res.inferred_relationships = Undef
  /\ ~result[i].res.hotspot_score.def

C18_StructuralGuard ==
  \A i \in Tasks :
     (variant = "fanout" /\ Settled(i) /\ client[i].state = "fulfilled") =>
        LET text == generateContent(stub[i], calls[i]).text
        IN /\ FailsGuard(text) => IsDegradedWith(i, InvalidJsonMsg)
           /\ (~FailsGuard(text) /\ text.json.k = "invalid") =>
                 IsDegradedWith(i, SyntaxErrorMsg(text))

(* A response that is valid JSON but no object text has been rejected *)
C18_Witness ==
  /\ variant = "fanout"
  /\ \E i \in Tasks :
        /\ Settled(i)
        /\ client[i].state = "fulfilled"
        /\ generateContent(stub[i], calls[i]).text.json.k \in {"null", "array"}
        /\ IsDegradedWith(i, InvalidJsonMsg)

----------------------------------------------------------------------------
(* C19 -- Applicable rules per table: the rules text passed to the         *)
(* analysis of table T is T's own rules followed by exactly those keys of  *)
(* the GlobalRuleMap whose table list contains T.name (as an equal         *)
(* string), one per line, with an empty part left out; with an empty       *)
(* ruleMap it is T.rules alone.                                            *)

(* The lines of T's own rules, none when the field is empty *)
OwnRuleLines(i) == IF tables[i].rules = <<"">> THEN <<>> ELSE tables[i].rules

(* The keys of ruleMap whose table list holds the name of table i *)
GlobalRuleLines(i) ==
  LET kept == SelectSeq(ruleMap,
                LAMBDA e : tables[i].name \in {e.tables[j] : j \in DOMAIN e.tables})
  IN [k \in 1..Len(kept) |-> kept[k].rule]

C19_ApplicableRules ==
  \A i \in Tasks :
     (variant = "fanout" /\ phase # "idle") =>
        /\ rulesText[i] =
              IF OwnRuleLines(i) \o GlobalRuleLines(i) = <<>>
                THEN <<"">>
                ELSE OwnRuleLines(i) \o GlobalRuleLines(i)
        /\ ruleMap = <<>> => rulesText[i] = tables[i].rules

(* Two tables with rules of their own, and a global rule that applies to   *)
(* one of them only                                                        *)
C19_Witness ==
  /\ variant = "fanout"
  /\ phase = "done"
  /\ \E i, j \in Tasks :
        /\ tables[i].rules # <<"">>
        /\ tables[j].rules # <<"">>
        /\ \E k \in 1..Len(ruleMap) :
              /\ includes(rulesText[i], ruleMap[k].rule)
              /\ ~includes(rulesText[j], ruleMap[k].rule)
              /\ Len(rulesText[i]) > Len(tables[i].rules) + 1

----------------------------------------------------------------------------
(* C20 -- Backoff schedule of generateContentWithRetry: the wait before    *)
(* the first retry is the base delay plus the jitter, 2000 ms <= d < 3000  *)
(* ms in the fan-out file and exactly 4000 ms in the files without jitter; *)
(* every later wait is exactly double the one before (d, 2d, 4d), so the   *)
(* jitter is drawn once per call and not once per attempt.                 *)

HasJitter == variant \in {"fanout", "rulemap", "sql"}

C20_BackoffSchedule ==
  \A i \in Tasks :
     /\ Len(waitLog[i]) <= 3
     /\ Len(waitLog[i]) >= 1 =>
           /\ HasJitter =>
                 /\ 2000 <= waitLog[i][1] /\ waitLog[i][1] < 3000
                 /\ waitLog[i][1] = 2000 + random[i]
           /\ ~HasJitter => waitLog[i][1] = 4000
     /\ \A k \in 2..Len(waitLog[i]) : waitLog[i][k] = 2 * waitLog[i][k - 1]

(* Three waits of a call whose jitter is neither 0 nor a round number *)
C20_Witness ==
  /\ variant = "fanout"
  /\ \E i \in Tasks :
        /\ random[i] = 999
        /\ waitLog[i] = <<2999, 5998, 11996>>

----------------------------------------------------------------------------
(* C21: unbounded fan-out.  In the orchestrators that analyze table by     *)
(* table (fan-out and legacy file), once analyzeDataQuality has been       *)
(* called on a non-empty list the first remote call of every table has     *)
(* been issued: no table is still waiting to start while another table's   *)
(* call is in flight, backing off, retried or answered, and no response    *)
(* has been processed before the last table's first call was issued.       *)

InFlight == {i \in Tasks : pc[i] = "inflight"}

C21_UnboundedFanOut ==
  (IsOrchestrator /\ phase # "idle") =>
    \A i \in Tasks : pc[i] # "idle" /\ calls[i] >= 1

(* Two tables: the first one is in a backoff wait after a rate-limit       *)
(* failure while the first call of the second one is in flight             *)
C21_Witness ==
  /\ IsOrchestrator
  /\ Len(tables) = 2
  /\ pc[1] = "backoff"
  /\ pc[2] = "inflight"
  /\ calls[2] = 1
  /\ Cardinality(InFlight) = 1

----------------------------------------------------------------------------
(* C22: no shared mutable state between the per-table analyses.  No step   *)
(* of analyzeDataQuality changes inputs.tables (content or order), the     *)
(* rule map or the other inputs; once the analyses run, a step changes the *)
(* retry state and the result of at most one table; a result is written    *)
(* once, by the table's own analysis as it settles; and the loop counter   *)
(* and the delay of a table's call are determined by the rate-limit        *)
(* failures of that table's own calls.                                     *)

RECURSIVE Pow2(_)
Pow2(n) == IF n = 0 THEN 1 ELSE 2 * Pow2(n - 1)

TaskChanges(i) ==
  \/ pc'[i] # pc[i]
  \/ attempt'[i] # attempt[i]
  \/ delayMs'[i] # delayMs[i]
  \/ lastError'[i] # lastError[i]
  \/ calls'[i] # calls[i]
  \/ waitLog'[i] # waitLog[i]
  \/ client'[i] # client[i]
  \/ result'[i] # result[i]

OwnRetryState(i) ==
  /\ attempt[i] = Len(waitLog[i]) - (IF pc[i] = "backoff" THEN 1 ELSE 0)
  /\ delayMs[i] = initialDelay(variant, random[i]) * Pow2(attempt[i])
  /\ \A k \in 1..Len(waitLog[i]) :
        waitLog[i][k] = initialDelay(variant, random[i]) * Pow2(k - 1)

NoSharedStateStep ==
  /\ UNCHANGED inputVars
  /\ (IsOrchestrator /\ phase = "running") =>
       /\ \A i, j \in Tasks : (TaskChanges(i) /\ TaskChanges(j)) => i = j
       /\ \A i \in Tasks :
            /\ result'[i] # result[i] =>
                  result[i] = NoResult /\ pc[i] # "settled" /\ pc'[i] = "settled"
            /\ rulesText'[i] = rulesText[i]
       /\ \A i \in Tasks : OwnRetryState(i)

C22_NoSharedState == [][NoSharedStateStep]_vars

(* Two tables: the first one has been rate-limited twice and its delay has *)
(* doubled twice, the second one is still on its first call with its       *)
(* initial delay                                                           *)
C22_Witness ==
  /\ IsOrchestrator
  /\ Len(tables) = 2
  /\ attempt[1] = 2
  /\ Len(waitLog[1]) = 2
  /\ delayMs[1] = 4 * initialDelay(variant, random[1])
  /\ pc[2] = "inflight"
  /\ attempt[2] = 0
  /\ calls[2] = 1
  /\ delayMs[2] = initialDelay(variant, random[2])

----------------------------------------------------------------------------
(* C23: relationship targets offered to the model.  The prompt the fan-out *)
(* analyzer builds for table T lists, separated by ", ", the input table   *)
(* names that differ from T.name, in input order: every input name other   *)
(* than T.name is listed, T.name is not, and no listed name is outside the *)
(* input list.                                                             *)

(* The names listed in a target list: the parts between the separators *)
ListedNames(list) == {list[k] : k \in {j \in 1..Len(list) : j % 2 = 1}}

InputNames == {tables[k].name : k \in 1..Len(tables)}

C23_RelationshipTargets ==
  (variant = "fanout" /\ phase # "idle") =>
    \A i \in Tasks :
      /\ ListedNames(targetList[i]) = InputNames \ {tables[i].name}
      /\ \A k \in 1..Len(targetList[i]) :
            k % 2 = 0 => targetList[i][k] = ", "
      /\ Len(targetList[i]) % 2 = 0 => targetList[i] = <<>>

(* Two tables of different names: each prompt lists the other table only *)
C23_Witness ==
  /\ variant = "fanout"
  /\ phase = "running"
  /\ Len(tables) = 2
  /\ tables[1].name # tables[2].name
  /\ targetList[1] = <<tables[2].name>>
  /\ targetList[2] = <<tables[1].name>>

----------------------------------------------------------------------------
(* C24: success path of generateContentWithRetry.  When the first k-1      *)
(* calls (k <= 3) fail with rate-limit errors and call k succeeds, the     *)
(* client returns the response of call k after exactly k calls and k-1     *)
(* backoff waits, and makes no call afterwards; each wait lies between a   *)
(* failed call and the next call: while a call is in flight there has been *)
(* one wait less than calls, during a wait as many waits as calls.         *)

SucceedsOnCall(s, k) == Responds(s) /\ s.fails = k - 1

C24_SuccessPath ==
  \A i \in Tasks :
    /\ pc[i] = "inflight" => Len(waitLog[i]) = calls[i] - 1
    /\ pc[i] = "backoff" => Len(waitLog[i]) = calls[i]
    /\ client[i] = Fulfilled =>
          /\ SucceedsOnCall(stub[i], calls[i])
          /\ Len(waitLog[i]) = calls[i] - 1
          /\ ClientSettled(i)
          /\ Settled(i) =>
                IF variant = "sql"
                  THEN sqlText = SqlResponse(stub[i].final.text)
                  ELSE result[i] = afterAwait(variant, taskName(i), Fulfilled,
                                              stub[i].final.text)
    /\ \A k \in 1..Retries :
          (SucceedsOnCall(stub[i], k) /\ ClientSettled(i)) =>
             client[i] = Fulfilled /\ calls[i] = k

(* The third call succeeds after two rate-limited calls and two waits *)
C24_Witness ==
  \E i \in Tasks :
    /\ SucceedsOnCall(stub[i], 3)
    /\ client[i] = Fulfilled
    /\ calls[i] = 3
    /\ Len(waitLog[i]) = 2
    /\ phase = "done"

----------------------------------------------------------------------------
(* C25: conversion in mapGlobalRulesToTables.  On a successful remote      *)
(* response that is an array of {rule, tables} items, the keys of the      *)
(* returned map are exactly the non-empty rule texts of the items that     *)
(* have a tables value; each key is mapped to the tables of the last item  *)
(* with that rule text; items with an empty or missing rule or without     *)
(* tables leave no key.                                                    *)

(* The remote call succeeded and its response is an array of objects *)
MapConverted ==
  /\ variant = "rulemap"
  /\ phase = "done"
  /\ ~NothingToMap
  /\ client[1] = Fulfilled
  /\ MapResponse.json.k = "array"
  /\ \A k \in 1..Len(MapResponse.items) : MapResponse.items[k].t = "object"

(* The positions of the items with a non-empty rule and a tables value *)
KeptItems(items) ==
  {k \in 1..Len(items) : items[k].rule # "" /\ Truthy(items[k].tables)}

LastItemOf(items, rule) ==
  CHOOSE k \in KeptItems(items) :
    /\ items[k].rule = rule
    /\ \A j \in KeptItems(items) : j > k => items[j].rule # rule

IsConversionOf(map, items) ==
  /\ {map[j].rule : j \in 1..Len(map)} = {items[k].rule : k \in KeptItems(items)}
  /\ \A j \in 1..Len(map) :
        /\ map[j].tables = items[LastItemOf(items, map[j].rule)].tables.v
        /\ \A i \in 1..Len(map) : map[i].rule = map[j].rule => i = j

C25_MapConversion ==
  MapConverted => (mapped.ok /\ IsConversionOf(mapped.map, MapResponse.items))

----------------------------------------------------------------------------
(* C26: generateSqlForIssues never throws and avoids needless calls.       *)
(* Issues of type 'Schema Drift' and issues whose description contains     *)
(* 'data type mismatch' in any letter case are excluded; when no issue     *)
(* remains the call returns the fixed 'no actionable issues' comment       *)
(* without a remote call; otherwise it returns the text of the remote      *)
(* response, or the fixed 'error occurred' comment when the remote call    *)
(* failed after the retry policy; the call never rejects.                  *)

IsExcluded(issue) ==
  \/ issue.type = "Schema Drift"
  \/ \E k \in 1..Len(issue.description.v) :
        issue.description.v[k] \in {"data type mismatch", "Data Type Mismatch"}

NoIssueRemains == \A k \in 1..Len(issues) : IsExcluded(issues[k])

C26_SqlNeverThrows ==
  variant = "sql" =>
     /\ phase # "failed"
     /\ NoIssueRemains =>
           /\ calls[1] = 0
           /\ phase = "done" => sqlText = SqlNoActionable
     /\ (~NoIssueRemains /\ phase # "idle") => calls[1] >= 1
     /\ (~NoIssueRemains /\ phase = "done") =>
           /\ client[1] = Fulfilled => sqlText = SqlResponse(stub[1].final.text)
           /\ client[1] # Fulfilled =>
                 client[1].state = "rejected" /\ sqlText = SqlErrorComment

----------------------------------------------------------------------------
(* C27: termination and call budget.  If every remote call eventually      *)
(* returns or throws, analyzeDataQuality over N tables eventually settles;  *)
(* by then it has made at least N and at most 3*N remote calls, at most 3   *)
(* per table; the loop counter of a table's client is the number of its     *)
(* rate-limit failures that were waited out, so it grows with each of them  *)
(* and the table stops retrying when it reaches 3.                          *)

RECURSIVE SumCalls(_)
SumCalls(n) == IF n = 0 THEN 0 ELSE SumCalls(n - 1) + calls[n]

EveryCallSettles == \A i \in Tasks : ~Hangs(stub[i])

Completed == phase \in {"done", "failed"}

CallBudget ==
  IsOrchestrator =>
    /\ \A i \in Tasks :
          /\ calls[i] <= Retries
          /\ attempt[i] <= Retries
          /\ attempt[i] = Len(waitLog[i]) - (IF pc[i] = "backoff" THEN 1 ELSE 0)
          /\ pc[i] = "inflight" => calls[i] = attempt[i] + 1
          /\ attempt[i] = Retries => ClientSettled(i)
    /\ Completed =>
          /\ Len(tables) <= SumCalls(Len(tables))
          /\ SumCalls(Len(tables)) <= Retries * Len(tables)

C27_TerminationAndBudget ==
  /\ []CallBudget
  /\ (IsOrchestrator /\ EveryCallSettles) ~> Completed

(* Two tables: one answered by its first call, the other one rate-limited  *)
(* on all three calls; the analysis has completed after four calls          *)
C27_Witness ==
  /\ IsOrchestrator
  /\ phase = "done"
  /\ Len(tables) = 2
  /\ \E i, j \in Tasks : calls[i] = 1 /\ calls[j] = Retries /\ attempt[j] = Retries

----------------------------------------------------------------------------
(* C28: duplicate table names.  The per-table results are read back by      *)
(* table name, so every position of the merge receives the result of the    *)
(* last input table that has its name: when two tables share a name the     *)
(* earlier one's result is not merged and the later one's issues, rule      *)
(* entries, edges and hotspot are merged once per position, and the graph   *)
(* has one node per position, two of them with the same id.  With distinct  *)
(* names every position receives its own table's result.                    *)

(* The result the merge uses at position i *)
Received(i) == result[LastNamesake(i)].res

NamesDistinct ==
  \A i, j \in 1..Len(tables) : tables[i].name = tables[j].name => i = j

C28_DuplicateNames ==
  (variant = "fanout" /\ phase = "done" /\ Len(tables) > 0) =>
     LET n == Len(tables)
     IN /\ aggregate.issues.v =
             Flatten([i \in 1..n |-> Own(Received(i).issues_detected)], n)
        /\ aggregate.ruleEffectiveness.v =
             Flatten([i \in 1..n |-> Own(Received(i).rule_effectiveness)], n)
        /\ aggregate.ruleConflicts.v =
             Flatten([i \in 1..n |-> Own(Received(i).rule_conflicts)], n)
        /\ aggregate.viz.nodes = [i \in 1..n |-> nodeOf(tables[i].name)]
        /\ aggregate.viz.edges =
             Flatten([i \in 1..n |-> OwnEdges(LastNamesake(i))], n)
        /\ aggregate.viz.hotspots =
             Flatten([i \in 1..n |-> OwnHotspots(LastNamesake(i))], n)
        /\ NamesDistinct =>
             /\ aggregate.issues.v =
                  Flatten([i \in 1..n |-> Own(result[i].res.issues_detected)], n)
             /\ aggregate.viz.hotspots = Flatten([i \in 1..n |-> OwnHotspots(i)], n)

(* Two tables of one name with different results: the issues, the edge and *)
(* the hotspot of the second one are there twice, no issue of the first    *)
(* one is there, and the two nodes are equal                               *)
C28_Witness ==
  /\ variant = "fanout"
  /\ phase = "done"
  /\ Len(tables) = 2
  /\ tables[1].name = tables[2].name
  /\ LET own1 == Own(result[1].res.issues_detected)
         own2 == Own(result[2].res.issues_detected)
     IN /\ Len(own1) > 0
        /\ Len(own2) > 0
        /\ aggregate.issues.v = own2 \o own2
        /\ \A k \in 1..Len(own1) : ~includes(aggregate.issues.v, own1[k])
  /\ Len(OwnEdges(2)) > 0
  /\ aggregate.viz.edges = OwnEdges(2) \o OwnEdges(2)
  /\ result[1].res.hotspot_score # result[2].res.hotspot_score
  /\ aggregate.viz.hotspots = OwnHotspots(2) \o OwnHotspots(2)
  /\ Len(aggregate.viz.nodes) = 2
  /\ aggregate.viz.nodes[1] = aggregate.viz.nodes[2]

----------------------------------------------------------------------------
(* C29: wait after the final failed attempt.  generateContentWithRetry      *)
(* waits once per rate-limit failure, also after the failure of the last    *)
(* attempt: when all 3 attempts are rate-limited there are 3 waits, the     *)
(* third one of 4 times the initial delay; during it the error has not been *)
(* propagated, and after it the client rejects without another call.        *)

(* The calls of task i that have failed with a rate-limit error so far *)
RateLimitFailures(i) ==
  IF pc[i] = "idle" THEN 0
  ELSE IF pc[i] = "inflight" THEN calls[i] - 1
  ELSE IF pc[i] = "backoff" THEN calls[i]
  ELSE IF client[i].state = "rejected" /\ isRateLimitError(client[i].reason)
    THEN calls[i]
  ELSE calls[i] - 1

C29_WaitAfterFinalAttempt ==
  \A i \in Tasks :
    /\ Len(waitLog[i]) = RateLimitFailures(i)
    /\ (pc[i] = "backoff" /\ calls[i] = Retries) =>
          /\ waitLog[i][Retries] = 4 * initialDelay(variant, random[i])
          /\ client[i] = Pending
          /\ result[i] = NoResult
    /\ (AlwaysRateLimited(stub[i]) /\ ClientSettled(i)) =>
          /\ calls[i] = Retries
          /\ Len(waitLog[i]) = Retries
          /\ waitLog[i][Retries] = 4 * initialDelay(variant, random[i])
          /\ client[i] = Rejected(RateLimitMsg(stub[i].kind, Retries))

(* The third call has been rate-limited and the third wait is under way *)
C29_Witness ==
  \E i \in Tasks :
    /\ pc[i] = "backoff"
    /\ calls[i] = Retries
    /\ attempt[i] = Retries - 1
    /\ Len(waitLog[i]) = Retries
    /\ waitLog[i][Retries] = 4 * initialDelay(variant, random[i])
    /\ client[i] = Pending

----------------------------------------------------------------------------
(* C30: self-referencing relationships are not filtered.  The graph builder *)
(* keeps every relationship whose to_table is an input table name: a        *)
(* relationship a table reports to its own name gives an edge from the      *)
(* table to itself, and a relationship that points to a table whose         *)
(* analysis failed gives an edge as well, the failed table being a node.    *)

HasEdge(from, rel) ==
  includes(aggregate.viz.edges,
           [from |-> from, to |-> rel.to_table, label |-> rel.on_column])

(* The analysis of the table at position i ended in the degraded result *)
AnalysisFailed(i) == IsDegraded(LastNamesake(i))

C30_SelfEdgesKept ==
  (variant = "fanout" /\ phase = "done" /\ Len(tables) > 0) =>
     \A i \in 1..Len(tables) :
        LET rels == Own(Received(i).inferred_relationships)
        IN /\ includes(aggregate.viz.nodes, nodeOf(tables[i].name))
           /\ \A k \in 1..Len(rels) :
                 /\ rels[k].to_table = tables[i].name => HasEdge(tables[i].name, rels[k])
                 /\ \A j \in 1..Len(tables) :
                       (rels[k].to_table = tables[j].name /\ AnalysisFailed(j)) =>
                          HasEdge(tables[i].name, rels[k])

(* A table reports a relationship to itself and one to the other table,    *)
(* whose analysis has failed: both edges are in the graph and the failed   *)
(* table is a node                                                         *)
C30_Witness ==
  /\ variant = "fanout"
  /\ phase = "done"
  /\ Len(tables) = 2
  /\ \E i, j \in 1..2 :
        /\ tables[i].name # tables[j].name
        /\ client[j].state = "rejected"
        /\ AnalysisFailed(j)
        /\ includes(aggregate.viz.nodes, nodeOf(tables[j].name))
        /\ \E c1, c2 \in {"order_id", "customer_id"} :
              /\ includes(aggregate.viz.edges,
                          [from |-> tables[i].name, to |-> tables[i].name, label |-> c1])
              /\ includes(aggregate.viz.edges,
                          [from |-> tables[i].name, to |-> tables[j].name, label |-> c2])

====
